---- MODULE Spec2Model ----
(***************************************************************************)
(* Model of the queued HTTP client of the LED-display firmware             *)
(* (src/pi_files/api/http_client.py) as driven by the main loop            *)
(* (src/pi_files/main.py).  The firmware is single threaded: tick() runs   *)
(* one request to completion, and the only code that runs while a tick is  *)
(* in progress is the request's own callbacks, which may call              *)
(* enqueue_request() again (no caller in the repository calls tick() from  *)
(* a callback).  pc records how far the running tick() got.                *)
(*                                                                         *)
(* Spec is the queue with an arbitrary caller.  The components around the  *)
(* queue have specifications of their own over the same variables:         *)
(* SpecLoop (the main loop driving the queue), SpecSpotify (the Spotify    *)
(* client and its token refresh), SpecTrain (the transit and weather       *)
(* sources with the train widget) and SpecEpoch (the moving epoch of a     *)
(* data source), SpecButtons (the two buttons and their combo),            *)
(* SpecRender (the widgets' render() under the main loop), SpecImage (the  *)
(* image resize client), SpecSources (the payloads of the transit and      *)
(* weather sources), SpecCron (the cron schedules of the announcements),   *)
(* SpecAnnouncements (the announcements widget's active entries),          *)
(* SpecRefresh (the train widget's requests as the main loop activates and *)
(* updates it) and SpecPoll (the Spotify widget's polling, with ticks that *)
(* keep coming).  SpecFair is the queue whose ticks keep coming.           *)
(* Each leaves the variables of the others as constructed.                 *)
(***************************************************************************)
EXTENDS Integers, Sequences, FiniteSets, TLC

VARIABLES
    _queue,            \* HttpClient._queue: list of _HttpRequest
    _pending_keys,     \* HttpClient._pending_keys: set of request keys
    _session,          \* HttpClient._session: NoSession or a session id
    _ignored_log_at,   \* HttpClient._ignored_log_at: key -> time of last log
    _active,           \* io_indicator._active
    lib_ok,            \* adafruit_requests, socketpool and wifi were imported
    now,               \* time.monotonic(), whole seconds
    pc,                \* position of the running tick(), "idle" between calls
    req,               \* tick(): local req
    session,           \* tick(): local session
    status_code,       \* tick(): local status_code
    exc,               \* tick(): the exception in flight
    sessions,          \* every session created so far: was it closed, who used it
    calls,             \* every enqueue_request() call so far, with its result
    executed,          \* ids of the popped requests, in the order popped
    obs                \* what the most recent execution did, as seen from outside

\* The main loop (src/pi_files/main.py)
VARIABLES
    lpc,                   \* position of the main loop, "off" when it is not modelled
    panel_ok,              \* main.panel_ok
    button_controller,     \* main.button_controller is not None
    next_widget_requested, \* ButtonController.next_widget_requested
    widget_event,          \* ButtonController.widget_event
    active_widget_index,   \* main.active_widget_index
    steps,                 \* the calls the current iteration has made so far
    caught                 \* the exception the loop's except clause bound, kept
                           \* until the next iteration has polled the buttons

loopVars == << lpc, panel_ok, button_controller, next_widget_requested,
              widget_event, active_widget_index, steps, caught >>

\* The Spotify client (src/pi_files/api/spotify_api.py)
VARIABLES
    has_credentials,   \* SpotifyClient.has_credentials()
    access_token,      \* SpotifyClient.access_token
    _token_expires_at, \* SpotifyClient._token_expires_at
    _refresh_inflight, \* SpotifyClient._refresh_inflight
    _after_refresh,    \* SpotifyClient._after_refresh: the callers waiting
    last_error_stage,  \* SpotifyClient.last_error_stage
    last_error,        \* SpotifyClient.last_error: the message of the exception
    sp_calls,          \* every request_currently_playing() call so far
    continued,         \* callers whose after_refresh continuation was invoked
    notified,          \* callers whose on_update or on_error was invoked by a tick
    completed,         \* owners of the token requests whose handler has run
    inval              \* "fresh" after a 401 until the next call, then "called"
                       \* until a refresh succeeds; "no" otherwise

spotifyVars == << has_credentials, access_token, _token_expires_at,
                 _refresh_inflight, _after_refresh, last_error_stage,
                 last_error,
                 sp_calls, continued, notified, completed, inval >>

\* The transit source and the train widget (src/pi_files/api/muni_api.py,
\* src/pi_files/api/weather_request_api.py, src/pi_files/widgets/train_time.py)
VARIABLES
    trains,             \* MuniStop.trains: the routes of the arrivals
    fatal_error_lines,  \* MuniStop.fatal_error_lines
    stop_last_error,    \* MuniStop.last_error
    weather_last_error, \* WeatherClient.last_error
    next_refresh,       \* TrainTimeWidget.next_refresh
    data_ready,         \* TrainTimeWidget.data_ready
    error_state,        \* TrainTimeWidget.error_state
    transit_calls,      \* number of MuniStop.request_refresh() calls so far
    fatal_seen,         \* the transit source has recorded a bad stop code
    last_message        \* provider error message of the transit response
                        \* handled last

trainVars == << trains, fatal_error_lines, stop_last_error, weather_last_error,
               next_refresh, data_ready, error_state, transit_calls,
               fatal_seen, last_message >>

\* The moving epoch of a data source (MuniStop.get_utc_epoch,
\* WeatherClient.get_utc_epoch)
VARIABLES
    source,                 \* the data source: "muni" or "weather"
    server_epoch,           \* MuniStop.response_epoch / WeatherClient.current_epoch
    _last_update_monotonic, \* the clock when the response was handled
    mono,                   \* time.monotonic(), in fractions of a second
    asked,                  \* now_monotonic of the latest get_utc_epoch() call
    answer,                 \* what that call returned
    prev_asked,             \* now_monotonic of the call before, same response
    prev_answer             \* what the call before returned

epochVars == << source, server_epoch, _last_update_monotonic, mono, asked,
               answer, prev_asked, prev_answer >>

\* The two buttons (src/pi_files/local/hardware/button.py)
VARIABLES
    button1,           \* ButtonController.button1: _pressed, _press_start and
                       \* _long_hold_fired of the Button
    button2,           \* ButtonController.button2
    _combo_start,      \* ButtonController._combo_start
    _combo_fired,      \* ButtonController._combo_fired
    _suppress_actions, \* ButtonController._suppress_actions
    poll_now,          \* the now of the latest ButtonController.update(), in
                       \* half seconds
    delivered,         \* the callbacks of that update() that took effect
    swallowed,         \* the callbacks of that update() that returned at once
    was_suppressed,    \* _suppress_actions when that update() began
    held_since,        \* since when both pins have read pressed at every poll
    reached            \* both pins have read pressed for the combo threshold
                       \* and have not both read released since

buttonVars == << button1, button2, _combo_start, _combo_fired,
                 _suppress_actions, poll_now, delivered, swallowed,
                 was_suppressed, held_since, reached >>

\* What a widget draws (TrainTimeWidget.render,
\* SpotifyNowPlayingWidget.render, AnnouncementsWidget.render)
VARIABLES
    widget,            \* the widget: which one it is, and the fields its
                       \* render() reads
    rnow,              \* time.monotonic(), in quarter seconds
    frame,             \* what the latest render() returned
    dirty_before,      \* _dirty when that render() began
    minute_changed,    \* the minute of that render() is not the minute of
                       \* the frame drawn last
    interval_elapsed   \* the loading animation was due at that render()

renderVars == << widget, rnow, frame, dirty_before, minute_changed,
                 interval_elapsed >>

\* The image proxy client (src/pi_files/api/image_resize_api.py)
VARIABLES
    _pending,          \* ImageResizeApi._pending
    image_last_error,  \* ImageResizeApi.last_error
    image_log          \* one record per request whose handler has run: the
                       \* transport error, the _fetch_via_socket() calls and
                       \* the callbacks invoked

imageVars == << _pending, image_last_error, image_log >>

\* What the transit and weather sources store (src/pi_files/api/muni_api.py,
\* src/pi_files/api/weather_request_api.py)
VARIABLES
    stop,              \* the MuniStop: trains, response_epoch,
                       \* _last_update_monotonic, fatal_error_lines, last_error
    weather,           \* the WeatherClient: utc_offset_seconds, current_epoch,
                       \* current_temperature, _last_update_monotonic,
                       \* last_error
    src_now,           \* time.monotonic()
    stored_before,     \* the payload fields of stop and weather when the
                       \* latest response handler began
    ended              \* how that handler ended: "update" or "error"

sourceVars == << stop, weather, src_now, stored_before, ended >>

\* The cron schedules of the announcements
\* (src/pi_files/widgets/announcements.py)
VARIABLES
    cron_expr,         \* the five fields of a schedule, each a list of parts
    tm,                \* a local time: tm_min, tm_hour, tm_mday, tm_mon and
                       \* tm_wday (0 is Monday)
    matched            \* what CronSchedule(cron_expr).matches(tm) returned,
                       \* in a list that is empty before the call

cronVars == << cron_expr, tm, matched >>

\* The announcements widget (src/pi_files/widgets/announcements.py)
VARIABLES
    _announcements,    \* AnnouncementsWidget._announcements: label and cron
                       \* expression of each entry
    active_entries,    \* AnnouncementsWidget._active, by label
    _current,          \* the label of AnnouncementsWidget._current
    _current_index,    \* AnnouncementsWidget._current_index
    _last_minute_key,  \* AnnouncementsWidget._last_minute_key
    wall,              \* time.time(), in seconds
    evaluated,         \* the minutes in which _refresh_active() ran, in order
    updated            \* the minutes in which update() ran

announcementVars == << _announcements, active_entries, _current, _current_index,
                       _last_minute_key, wall, evaluated, updated >>

\* The train widget under the main loop (src/pi_files/widgets/train_time.py,
\* src/pi_files/main.py)
VARIABLES
    requested          \* the times of the widget's request_refresh() calls

refreshVars == << requested >>

\* The Spotify widget's polling (src/pi_files/widgets/spotify_now_playing.py)
VARIABLES
    _request_pending,  \* SpotifyNowPlayingWidget._request_pending
    _status            \* SpotifyNowPlayingWidget._status

pollVars == << _request_pending, _status >>

\* The display toggle (src/pi_files/local/hardware/button.py and the main
\* loop of src/pi_files/main.py)
VARIABLES
    display_toggle_requested,  \* ButtonController.display_toggle_requested
    display_toggle,            \* main.py: the display_toggle of the latest
                               \* iteration, consume_display_toggle()'s
                               \* result: << >> for None, << b >> for b
    main_display_enabled       \* main.py: the loop's display_enabled

toggleVars == << display_toggle_requested, display_toggle,
                 main_display_enabled >>

\* the variables of the components around the request queue
ext == << loopVars, spotifyVars, trainVars, epochVars, buttonVars,
          renderVars, imageVars, sourceVars, cronVars, announcementVars,
          refreshVars, pollVars, toggleVars >>

\* the variables the specification of the main loop leaves alone
loopRest == << spotifyVars, trainVars, epochVars, buttonVars, renderVars,
               imageVars, sourceVars, cronVars, announcementVars,
               refreshVars, pollVars, toggleVars >>

\* the variables the specification of the Spotify client leaves alone
spotifyRest == << loopVars, trainVars, epochVars, buttonVars, renderVars,
                  imageVars, sourceVars, cronVars, announcementVars,
                  refreshVars, toggleVars >>

\* the variables the specification of the train widget leaves alone
trainRest == << loopVars, spotifyVars, epochVars, buttonVars, renderVars,
                imageVars, sourceVars, cronVars, announcementVars,
                refreshVars, pollVars, toggleVars >>

\* the variables the specification of the moving epoch leaves alone
epochOthers == << loopVars, spotifyVars, trainVars, buttonVars, renderVars,
                  imageVars, sourceVars, cronVars, announcementVars,
                  refreshVars, pollVars, toggleVars >>

\* the variables the specification of the buttons leaves alone
buttonOthers == << spotifyVars, trainVars, epochVars, renderVars, imageVars,
                   sourceVars, cronVars, announcementVars, refreshVars,
                   pollVars >>

\* the variables the specification of the frames leaves alone
renderOthers == << loopVars, spotifyVars, trainVars, epochVars, buttonVars,
                   imageVars, sourceVars, cronVars, announcementVars,
                   refreshVars, pollVars, toggleVars >>

\* the variables the specification of the image proxy client leaves alone
imageOthers == << loopVars, spotifyVars, trainVars, epochVars, buttonVars,
                  renderVars, sourceVars, cronVars, announcementVars,
                  refreshVars, pollVars, toggleVars >>

\* the variables the specification of the stored payloads leaves alone
sourceOthers == << loopVars, spotifyVars, trainVars, epochVars, buttonVars,
                   renderVars, imageVars, cronVars, announcementVars,
                   refreshVars, pollVars, toggleVars >>

\* the variables the specification of the cron schedules leaves alone
cronOthers == << loopVars, spotifyVars, trainVars, epochVars, buttonVars,
                 renderVars, imageVars, sourceVars, announcementVars,
                 refreshVars, pollVars, toggleVars >>

\* the variables the specification of the announcements leaves alone
announcementOthers == << loopVars, spotifyVars, trainVars, epochVars,
                         buttonVars, renderVars, imageVars, sourceVars,
                         cronVars, refreshVars, pollVars, toggleVars >>

\* the variables the specification of the train widget's refreshes leaves alone
refreshOthers == << spotifyVars, epochVars, buttonVars, renderVars,
                    imageVars, sourceVars, cronVars, announcementVars,
                    pollVars, toggleVars >>

\* the variables the specification of the Spotify widget's polling leaves alone
pollOthers == << loopVars, trainVars, epochVars, buttonVars, renderVars,
                 imageVars, sourceVars, cronVars, announcementVars,
                 refreshVars, toggleVars >>

\* the variables the specification of the display toggle leaves alone
toggleOthers == << spotifyVars, trainVars, epochVars, renderVars, imageVars,
                   sourceVars, cronVars, announcementVars, refreshVars,
                   pollVars >>

vars == << _queue, _pending_keys, _session, _ignored_log_at, _active, lib_ok,
           now, pc, req, session, status_code, exc, sessions, calls, executed,
           obs, ext >>

-----------------------------------------------------------------------------
(* Bounds of the model *)

MaxCalls == 3          \* enqueue_request() calls in one run
MaxAdvances == 2       \* clock advances in one run

-----------------------------------------------------------------------------
(* Values *)

None == "None"                       \* Python None passed as key
NoSession == 0                       \* self._session is None
NoStatus == -1                       \* no response was received
NoExc == "none"                      \* no exception in flight

IgnoredLogInterval == 10             \* self._ignored_log_interval
ClockStep == 5                       \* seconds the clock advances at a time

Statuses == {200, 404, 500, 0}       \* a 2xx, a 4xx, a 5xx and "no status"

\* The enqueue calls the model makes: the parameters of enqueue_get() and
\* enqueue_post() as the callers in the repository pass them.  "conn" is the
\* value of the Connection header ("" when the header is absent).
CallSites ==
    { \* a data source: enqueue_get(url, on_success, on_error, on_progress)
      [method |-> "GET",  url |-> "a",   key |-> None,          conn |-> "",
       on_success |-> TRUE,  on_error |-> TRUE,  on_progress |-> TRUE],
      \* the image proxy: key "image_proxy", headers {"Connection": "close"}
      [method |-> "GET",  url |-> "img", key |-> "image_proxy", conn |-> "close",
       on_success |-> TRUE,  on_error |-> TRUE,  on_progress |-> FALSE],
      \* enqueue_request(method, url, key="", headers) without callbacks
      [method |-> "post", url |-> "b",   key |-> "",            conn |-> "Close",
       on_success |-> FALSE, on_error |-> FALSE, on_progress |-> FALSE] }

\* str.lower() and str.upper() on the strings that occur
Lower(s) == IF s = "Close" THEN "close" ELSE s
Upper(s) == IF s = "post" THEN "POST" ELSE IF s = "get" THEN "GET" ELSE s

\* request_key = key or url
RequestKey(key, url) == IF key = None \/ key = "" THEN url ELSE key

\* _HttpRequest(...): the request object built from a call's parameters
HttpRequest(c, id) ==
    [id |-> id, url |-> c.url, key |-> RequestKey(c.key, c.url),
     method |-> Upper(c.method), conn |-> c.conn,
     on_success |-> c.on_success, on_error |-> c.on_error,
     on_progress |-> c.on_progress]

\* no request is being executed
NoReq == [id |-> 0, url |-> "", key |-> "", method |-> "", conn |-> "",
          on_success |-> FALSE, on_error |-> FALSE, on_progress |-> FALSE]

\* req.headers and str(req.headers.get("Connection", "")).lower() == "close"
CloseRequested(r) == Lower(r.conn) = "close"

\* every request key a call can produce
Keys == { RequestKey(c.key, c.url) : c \in CallSites }

\* the positions of tick() at which a callback of the request is running
CallbackPcs == {"progress_before", "on_success", "progress_after", "on_error"}

-----------------------------------------------------------------------------
(* The session: _create_session, _get_session, _close_session *)

\* adafruit_requests.Session(pool, ssl_context): a new live session
Created(ss) == Append(ss, [closed |-> FALSE, users |-> {}])

\* _close_session(): the session held in self._session is closed, if any
Closed(ss, s) == IF s = NoSession THEN ss ELSE [ss EXCEPT ![s].closed = TRUE]

\* session.get()/session.post(): request r is issued on session s
Used(ss, s, r) == [ss EXCEPT ![s].users = @ \cup {r}]

\* the sessions created and not yet closed
Live == { s \in 1..Len(sessions) : ~sessions[s].closed }

-----------------------------------------------------------------------------
(* What an execution did, as its caller and its callbacks see it *)

\* req: the request executed; net: calls of session.get/post; prog, succ, err:
\* calls of on_progress, on_success, on_error; status: the status of the
\* response received; succ_arg: the status given to on_success; caught: the
\* exception the except block caught; on_exc: the exception given to on_error;
\* used: the session the request was sent on; done: tick() has returned;
\* raised: the exception tick() raised to its caller
NoObs ==
    [req |-> NoReq, net |-> 0, prog |-> 0, succ |-> 0, err |-> 0,
     status |-> NoStatus, succ_arg |-> NoStatus, caught |-> NoExc,
     on_exc |-> NoExc, used |-> NoSession, done |-> FALSE, raised |-> NoExc]

-----------------------------------------------------------------------------
QueueInit ==
    /\ _queue = << >>
    /\ _pending_keys = {}
    /\ _session = NoSession
    /\ _ignored_log_at = [k \in Keys |-> 0]
    /\ _active = FALSE
    /\ lib_ok \in BOOLEAN
    /\ now = 0
    /\ pc = "idle"
    /\ req = NoReq
    /\ session = NoSession
    /\ status_code = NoStatus
    /\ exc = NoExc
    /\ sessions = << >>
    /\ calls = << >>
    /\ executed = << >>
    /\ obs = NoObs

\* the main loop is not part of the run: the queue has an arbitrary caller
LoopOff ==
    /\ lpc = "off"
    /\ panel_ok = TRUE
    /\ button_controller = FALSE
    /\ next_widget_requested = FALSE
    /\ widget_event = None
    /\ active_widget_index = 0
    /\ steps = << >>
    /\ caught = NoExc

\* the Spotify client as constructed, before any call
SpotifyOff ==
    /\ has_credentials = TRUE
    /\ access_token = None
    /\ _token_expires_at = 0
    /\ _refresh_inflight = FALSE
    /\ _after_refresh = << >>
    /\ last_error_stage = ""
    /\ last_error = None
    /\ sp_calls = << >>
    /\ continued = {}
    /\ notified = {}
    /\ completed = {}
    /\ inval = "no"

\* a provider error message: does its lowercased text contain "stop",
\* "code", "stopcode"
NoMessage == [stop |-> FALSE, code |-> FALSE, stopcode |-> FALSE, text |-> FALSE]

NoLines == << >>     \* self.fatal_error_lines is None

\* the transit source and the train widget as constructed
TrainOff ==
    /\ trains = << >>
    /\ fatal_error_lines = NoLines
    /\ stop_last_error = None
    /\ weather_last_error = None
    /\ next_refresh = 0
    /\ data_ready = FALSE
    /\ error_state = FALSE
    /\ transit_calls = 0
    /\ fatal_seen = FALSE
    /\ last_message = NoMessage

Nothing == -1        \* None where the value is a number

\* no response has been handled and no epoch has been asked for
EpochOff ==
    /\ source = "muni"
    /\ server_epoch = Nothing
    /\ _last_update_monotonic = Nothing
    /\ mono = 0
    /\ asked = Nothing
    /\ answer = Nothing
    /\ prev_asked = Nothing
    /\ prev_answer = Nothing

\* a Button as constructed
NewButton == [_pressed |-> FALSE, _press_start |-> Nothing,
              _long_hold_fired |-> FALSE]

\* the button controller as constructed, before any poll
\* display_toggle_requested = False in ButtonController.__init__ and
\* display_enabled = True before the main loop; no iteration has consumed
ToggleOff ==
    /\ display_toggle_requested = FALSE
    /\ display_toggle = << >>
    /\ main_display_enabled = TRUE

ButtonsOff ==
    /\ button1 = NewButton
    /\ button2 = NewButton
    /\ _combo_start = Nothing
    /\ _combo_fired = FALSE
    /\ _suppress_actions = FALSE
    /\ poll_now = 0
    /\ delivered = << >>
    /\ swallowed = << >>
    /\ was_suppressed = FALSE
    /\ held_since = Nothing
    /\ reached = FALSE

\* a widget as constructed: __init__ of the three widgets
NewWidget(kind) ==
    [kind |-> kind, _dirty |-> TRUE, _group |-> FALSE,
     data_ready |-> FALSE, error_state |-> FALSE,
     _last_render_minute |-> Nothing, _status |-> "idle",
     _art_tilegrid |-> FALSE, _image_error |-> FALSE, last |-> 0]

\* no widget has drawn anything
RenderOff ==
    /\ widget = NewWidget("train")
    /\ rnow = 1
    /\ frame = "nothing"
    /\ dirty_before = FALSE
    /\ minute_changed = FALSE
    /\ interval_elapsed = FALSE

\* the image proxy client as constructed
ImageOff ==
    /\ _pending = FALSE
    /\ image_last_error = None
    /\ image_log = << >>

\* MuniStop.__init__
NewStop == [trains |-> << >>, response_epoch |-> Nothing,
            _last_update_monotonic |-> Nothing,
            fatal_error_lines |-> NoLines, last_error |-> None]

\* WeatherClient.__init__
NewWeather == [utc_offset_seconds |-> 0, current_epoch |-> Nothing,
               current_temperature |-> Nothing,
               _last_update_monotonic |-> Nothing, last_error |-> None]

\* the two sources as constructed, before any response
SourcesOff ==
    /\ stop = NewStop
    /\ weather = NewWeather
    /\ src_now = 0
    /\ stored_before = << >>
    /\ ended = None

\* a part of a cron field: "*", a number, "a-b" or something else, with the
\* number after "/" if there is one
Part(base, a, b, step) == [base |-> base, a |-> a, b |-> b, step |-> step]

Star == Part("*", 0, 0, Nothing)

\* "* * * * *"
EveryMinute == << << Star >>, << Star >>, << Star >>, << Star >>, << Star >> >>

\* midnight of Monday, January the first
NewYear == [tm_min |-> 0, tm_hour |-> 0, tm_mday |-> 1, tm_mon |-> 1,
            tm_wday |-> 0]

\* no schedule has been matched
CronOff ==
    /\ cron_expr = EveryMinute
    /\ tm = NewYear
    /\ matched = << >>

\* the announcements widget as constructed, with no entry
AnnouncementsOff ==
    /\ _announcements = << >>
    /\ active_entries = << >>
    /\ _current = None
    /\ _current_index = 0
    /\ _last_minute_key = Nothing
    /\ wall = 0
    /\ evaluated = << >>
    /\ updated = {}

\* the train widget has asked for nothing
RefreshOff == requested = << >>

\* the Spotify widget as constructed, with credentials
PollOff ==
    /\ _request_pending = FALSE
    /\ _status = "idle"

\* every component but one as constructed
LoopOthersOff ==
    /\ SpotifyOff
    /\ TrainOff
    /\ EpochOff
    /\ ButtonsOff
    /\ RenderOff
    /\ ImageOff
    /\ SourcesOff
    /\ CronOff
    /\ AnnouncementsOff
    /\ RefreshOff
    /\ PollOff
    /\ ToggleOff

SpotifyOthersOff ==
    /\ LoopOff
    /\ TrainOff
    /\ EpochOff
    /\ ButtonsOff
    /\ RenderOff
    /\ ImageOff
    /\ SourcesOff
    /\ CronOff
    /\ AnnouncementsOff
    /\ RefreshOff
    /\ PollOff
    /\ ToggleOff

TrainOthersOff ==
    /\ LoopOff
    /\ SpotifyOff
    /\ EpochOff
    /\ ButtonsOff
    /\ RenderOff
    /\ ImageOff
    /\ SourcesOff
    /\ CronOff
    /\ AnnouncementsOff
    /\ RefreshOff
    /\ PollOff
    /\ ToggleOff

EpochOthersOff ==
    /\ LoopOff
    /\ SpotifyOff
    /\ TrainOff
    /\ ButtonsOff
    /\ RenderOff
    /\ ImageOff
    /\ SourcesOff
    /\ CronOff
    /\ AnnouncementsOff
    /\ RefreshOff
    /\ PollOff
    /\ ToggleOff

ButtonOthersOff ==
    /\ LoopOff
    /\ SpotifyOff
    /\ TrainOff
    /\ EpochOff
    /\ RenderOff
    /\ ImageOff
    /\ SourcesOff
    /\ CronOff
    /\ AnnouncementsOff
    /\ RefreshOff
    /\ PollOff
    /\ ToggleOff

RenderOthersOff ==
    /\ LoopOff
    /\ SpotifyOff
    /\ TrainOff
    /\ EpochOff
    /\ ButtonsOff
    /\ ImageOff
    /\ SourcesOff
    /\ CronOff
    /\ AnnouncementsOff
    /\ RefreshOff
    /\ PollOff
    /\ ToggleOff

ImageOthersOff ==
    /\ LoopOff
    /\ SpotifyOff
    /\ TrainOff
    /\ EpochOff
    /\ ButtonsOff
    /\ RenderOff
    /\ SourcesOff
    /\ CronOff
    /\ AnnouncementsOff
    /\ RefreshOff
    /\ PollOff
    /\ ToggleOff

SourceOthersOff ==
    /\ LoopOff
    /\ SpotifyOff
    /\ TrainOff
    /\ EpochOff
    /\ ButtonsOff
    /\ RenderOff
    /\ ImageOff
    /\ CronOff
    /\ AnnouncementsOff
    /\ RefreshOff
    /\ PollOff
    /\ ToggleOff

CronOthersOff ==
    /\ LoopOff
    /\ SpotifyOff
    /\ TrainOff
    /\ EpochOff
    /\ ButtonsOff
    /\ RenderOff
    /\ ImageOff
    /\ SourcesOff
    /\ AnnouncementsOff
    /\ RefreshOff
    /\ PollOff
    /\ ToggleOff

AnnouncementOthersOff ==
    /\ LoopOff
    /\ SpotifyOff
    /\ TrainOff
    /\ EpochOff
    /\ ButtonsOff
    /\ RenderOff
    /\ ImageOff
    /\ SourcesOff
    /\ CronOff
    /\ RefreshOff
    /\ PollOff
    /\ ToggleOff

RefreshOthersOff ==
    /\ LoopOff
    /\ SpotifyOff
    /\ TrainOff
    /\ EpochOff
    /\ ButtonsOff
    /\ RenderOff
    /\ ImageOff
    /\ SourcesOff
    /\ CronOff
    /\ AnnouncementsOff
    /\ PollOff
    /\ ToggleOff

PollOthersOff ==
    /\ LoopOff
    /\ SpotifyOff
    /\ TrainOff
    /\ EpochOff
    /\ ButtonsOff
    /\ RenderOff
    /\ ImageOff
    /\ SourcesOff
    /\ CronOff
    /\ AnnouncementsOff
    /\ RefreshOff
    /\ ToggleOff

ToggleOthersOff ==
    /\ LoopOff
    /\ SpotifyOff
    /\ TrainOff
    /\ EpochOff
    /\ ButtonsOff
    /\ RenderOff
    /\ ImageOff
    /\ SourcesOff
    /\ CronOff
    /\ AnnouncementsOff
    /\ RefreshOff
    /\ PollOff

Init == QueueInit /\ LoopOff /\ LoopOthersOff

queueVars == << _queue, _pending_keys >>

-----------------------------------------------------------------------------
(* time.monotonic() advances.  The clock is read by enqueue_request() only, *)
(* so it is enough to let it advance where enqueue_request() can be called. *)
Advance ==
    /\ pc \in {"idle"} \cup CallbackPcs
    /\ now < MaxAdvances * ClockStep
    /\ now' = now + ClockStep
    /\ UNCHANGED << _queue, _pending_keys, _session, _ignored_log_at, _active,
                    lib_ok, pc, req, session, status_code, exc, sessions,
                    calls, executed, obs >>

-----------------------------------------------------------------------------
(* HttpClient.enqueue_request / enqueue_get / enqueue_post *)

\* _log_ignored(key): the time stored for key after a rejected call at time t.
\* A key that was never logged reads as 0.0.
LogIgnored(log, key, t) ==
    IF t - log[key] < IgnoredLogInterval THEN log ELSE [log EXCEPT ![key] = t]

\* a duplicate check that looks at the waiting requests only
IsDuplicate_QueuedOnly(request_key) ==
    \E i \in 1..Len(_queue) : _queue[i].key = request_key

\* the key of the request that tick() is executing counts as free
IsDuplicate_NotExecuting(request_key) ==
    request_key \in _pending_keys /\ ~(pc # "idle" /\ request_key = req.key)

\* the duplicate check: is a call with this request key turned away
IsDuplicate(request_key) == request_key \in _pending_keys

\* the request is put in front of the waiting ones
Enqueued_Front(q, r) == << r >> \o q

\* self._queue.append(req)
Enqueued(q, r) == Append(q, r)

\* the keys of the requests accepted and not yet executed to the end: those
\* waiting in the queue and the one tick() is executing
InFlightKeys ==
    { _queue[i].key : i \in 1..Len(_queue) } \cup
    (IF req.id # 0 THEN {req.key} ELSE {})

\* The record kept of a call: its request key, what it returned, the id of the
\* request executing when it was made (0 between ticks), and whether a request
\* with the same key was in flight when it was made.
CallRecord(request_key, ret) ==
    [key |-> request_key, ret |-> ret, during |-> req.id,
     busy |-> request_key \in InFlightKeys]

\* the request is appended before the duplicate check
EnqueueRequest_AppendFirst(c) ==
    LET request_key == RequestKey(c.key, c.url)
        id == Len(calls) + 1
    IN  /\ pc \in {"idle"} \cup CallbackPcs
        /\ Len(calls) < MaxCalls
        /\ _queue' = Enqueued(_queue, HttpRequest(c, id))
        /\ IF IsDuplicate(request_key)
           THEN /\ _ignored_log_at' = LogIgnored(_ignored_log_at, request_key, now)
                /\ calls' = Append(calls, CallRecord(request_key, FALSE))
                /\ UNCHANGED _pending_keys
           ELSE /\ _pending_keys' = _pending_keys \cup {request_key}
                /\ calls' = Append(calls, CallRecord(request_key, TRUE))
                /\ UNCHANGED _ignored_log_at
        /\ UNCHANGED << _session, _active, lib_ok, now, pc, req, session,
                        status_code, exc, sessions, executed, obs >>

\* The call is made by the main loop's widget code between two ticks, or by a
\* callback of the request that tick() is executing.
EnqueueRequest(c) ==
    LET request_key == RequestKey(c.key, c.url)
        id == Len(calls) + 1
    IN  /\ pc \in {"idle"} \cup CallbackPcs
        /\ Len(calls) < MaxCalls
        /\ IF IsDuplicate(request_key)
           THEN /\ _ignored_log_at' = LogIgnored(_ignored_log_at, request_key, now)
                /\ calls' = Append(calls, CallRecord(request_key, FALSE))
                /\ UNCHANGED queueVars
           ELSE /\ _queue' = Enqueued(_queue, HttpRequest(c, id))
                /\ _pending_keys' = _pending_keys \cup {request_key}
                /\ calls' = Append(calls, CallRecord(request_key, TRUE))
                /\ UNCHANGED _ignored_log_at
        /\ UNCHANGED << _session, _active, lib_ok, now, pc, req, session,
                        status_code, exc, sessions, executed, obs >>

Enqueue == \E c \in CallSites : EnqueueRequest(c)

-----------------------------------------------------------------------------
(* HttpClient.tick *)

\* the indicator is switched on and never off
SetIoActive_Latch(active) == _active \/ active

\* _set_io_active(active): io_indicator.set_active(active) stores bool(active)
SetIoActive(active) == active

\* tick() on an empty queue: _set_io_active(False) and return
TickEmpty ==
    /\ pc = "idle"
    /\ _queue = << >>
    /\ _active' = SetIoActive(FALSE)
    /\ obs' = NoObs
    /\ UNCHANGED << _queue, _pending_keys, _session, _ignored_log_at, lib_ok,
                    now, pc, req, session, status_code, exc, sessions, calls,
                    executed >>

\* pop() without an index removes the last request
PopIndex_Last(q) == Len(q)

\* the index self._queue.pop(...) removes
PopIndex(q) == 1

\* the head is taken and the rest of the queue is dropped
TickPop_Clear ==
    /\ pc = "idle"
    /\ _queue # << >>
    /\ req' = _queue[1]
    /\ _queue' = << >>
    /\ _active' = SetIoActive(TRUE)
    /\ executed' = Append(executed, req'.id)
    /\ obs' = [NoObs EXCEPT !.req = req']
    /\ pc' = "try"
    /\ UNCHANGED << _pending_keys, _session, _ignored_log_at, lib_ok, now,
                    session, status_code, exc, sessions, calls >>

\* req = self._queue.pop(0); ...; _set_io_active(True)
TickPop ==
    /\ pc = "idle"
    /\ _queue # << >>
    /\ req' = _queue[PopIndex(_queue)]
    /\ _queue' = [i \in 1..(Len(_queue) - 1) |->
                    IF i < PopIndex(_queue) THEN _queue[i] ELSE _queue[i + 1]]
    /\ _active' = SetIoActive(TRUE)
    /\ executed' = Append(executed, req'.id)
    /\ obs' = [NoObs EXCEPT !.req = req']
    /\ pc' = "try"
    /\ UNCHANGED << _pending_keys, _session, _ignored_log_at, lib_ok, now,
                    session, status_code, exc, sessions, calls >>

\* where tick() goes after the first part of the try block, which ends with
\* "if req.on_progress: req.on_progress()"
AfterOpen(r) == IF r.on_progress THEN "progress_before" ELSE "send"

\* the session the request runs on, given the one left in self._session:
\* fresh_session after a Connection: close, else _get_session()
MustCreate(r, s) == CloseRequested(r) \/ s = NoSession

\* The start of the try block: the library check, then
\* "if close_requested: self._close_session()" and
\* "session = self._create_session() if fresh_session else self._get_session()".
\* Creating a session can fail (created = FALSE).
TickOpen ==
    /\ pc = "try"
    /\ IF ~lib_ok
       THEN /\ exc' = "RuntimeError"
            /\ pc' = "except"
            /\ UNCHANGED << _session, sessions, session, obs >>
       ELSE LET left == IF CloseRequested(req) THEN NoSession ELSE _session
                ss == IF CloseRequested(req) THEN Closed(sessions, _session)
                      ELSE sessions
            IN  IF MustCreate(req, left)
                THEN \E created \in BOOLEAN :
                       IF created
                       THEN /\ sessions' = Created(ss)
                            /\ session' = Len(ss) + 1
                            \* _get_session() keeps the new session,
                            \* the fresh_session branch does not
                            /\ _session' = IF CloseRequested(req) THEN left
                                           ELSE Len(ss) + 1
                            /\ pc' = AfterOpen(req)
                            /\ obs' = [obs EXCEPT
                                         !.prog = IF req.on_progress THEN @ + 1 ELSE @]
                            /\ exc' = exc
                       ELSE /\ sessions' = ss
                            /\ _session' = left
                            /\ exc' = "MemoryError"
                            /\ pc' = "except"
                            /\ UNCHANGED << session, obs >>
                ELSE /\ session' = left
                     /\ pc' = AfterOpen(req)
                     /\ obs' = [obs EXCEPT
                                  !.prog = IF req.on_progress THEN @ + 1 ELSE @]
                     /\ UNCHANGED << _session, sessions, exc >>
    /\ UNCHANGED << _queue, _pending_keys, _ignored_log_at, _active, lib_ok,
                    now, req, status_code, calls, executed >>

\* req.on_progress() before the request is sent returns or raises
ProgressBefore ==
    /\ pc = "progress_before"
    /\ \E raises \in BOOLEAN :
         IF raises THEN exc' = "ProgressError" /\ pc' = "except"
                   ELSE exc' = exc /\ pc' = "send"
    /\ UNCHANGED << _queue, _pending_keys, _session, _ignored_log_at, _active,
                    lib_ok, now, req, session, status_code, sessions, calls,
                    executed, obs >>

\* a status of 400 or more, or of 0, is treated as a failure
AfterResponse_RaiseForStatus(r) ==
    IF status_code' >= 400 \/ status_code' = 0 THEN "except"
    ELSE IF r.on_success THEN "on_success" ELSE "inner_finally"

\* on_success is left for a later tick
AfterResponse_Deferred(r) == "inner_finally"

\* where tick() goes once the response is read: on_success if there is one,
\* else the inner finally
AfterResponse(r) == IF r.on_success THEN "on_success" ELSE "inner_finally"

\* session.post(...) / session.get(...) returns a response or raises.  With
\* a response, reading response.content raises (the inner finally runs with
\* that exception in flight), or the body is read and decoded, the status s
\* is taken from the response and
\* "if req.on_success: req.on_success(text, body, status_code, resp_headers)".
Send ==
    /\ pc = "send"
    /\ sessions' = Used(sessions, session, req)
    /\ \/ \E s \in Statuses :
            /\ status_code' = s
            /\ pc' = AfterResponse(req)
            /\ obs' = [obs EXCEPT !.net = @ + 1, !.used = session, !.status = s,
                         !.succ = IF pc' = "on_success" THEN @ + 1 ELSE @,
                         !.succ_arg = IF pc' = "on_success" THEN s ELSE @]
            /\ exc' = exc
       \/ /\ exc' = "OSError"
          /\ pc' \in {"except", "inner_finally"}
          /\ obs' = [obs EXCEPT !.net = @ + 1, !.used = session]
          /\ UNCHANGED status_code
    /\ UNCHANGED << _queue, _pending_keys, _session, _ignored_log_at, _active,
                    lib_ok, now, req, session, calls, executed >>

\* req.on_success(...) returns or raises; either way the inner finally runs
OnSuccess ==
    /\ pc = "on_success"
    /\ \E raises \in BOOLEAN :
         exc' = IF raises THEN "SuccessError" ELSE exc
    /\ pc' = "inner_finally"
    /\ UNCHANGED << _queue, _pending_keys, _session, _ignored_log_at, _active,
                    lib_ok, now, req, session, status_code, sessions, calls,
                    executed, obs >>

\* the except clause is skipped
Leave_NoExcept(e) == "finally"

\* where tick() goes when the try block is left with exception e in flight
Leave(e) == IF e # NoExc THEN "except" ELSE "finally"

\* the inner finally: response.close(), then
\* "if req.on_progress: req.on_progress()"
InnerFinally ==
    /\ pc = "inner_finally"
    /\ IF req.on_progress
       THEN pc' = "progress_after" /\ obs' = [obs EXCEPT !.prog = @ + 1]
       ELSE pc' = Leave(exc) /\ obs' = obs
    /\ UNCHANGED << _queue, _pending_keys, _session, _ignored_log_at, _active,
                    lib_ok, now, req, session, status_code, exc, sessions,
                    calls, executed >>

\* req.on_progress() in the inner finally returns or raises; an exception
\* raised here replaces the one in flight
ProgressAfter ==
    /\ pc = "progress_after"
    /\ \E raises \in BOOLEAN :
         /\ exc' = IF raises THEN "ProgressError" ELSE exc
         /\ pc' = Leave(exc')
    /\ UNCHANGED << _queue, _pending_keys, _session, _ignored_log_at, _active,
                    lib_ok, now, req, session, status_code, sessions, calls,
                    executed, obs >>

\* a failed request is sent once more before on_error is told
AfterExcept_Retry(r) ==
    IF exc = "OSError" /\ obs.net = 1 THEN "send"
    ELSE IF r.on_error THEN "on_error" ELSE "finally"

\* where tick() goes in the except block after closing the session:
\* "if req.on_error: req.on_error(exc)"
AfterExcept(r) == IF r.on_error THEN "on_error" ELSE "finally"

\* except Exception as exc: self._close_session(); req.on_error(exc)
Except ==
    /\ pc = "except"
    /\ sessions' = Closed(sessions, _session)
    /\ _session' = NoSession
    /\ pc' = AfterExcept(req)
    /\ IF pc' = "on_error"
       THEN /\ obs' = [obs EXCEPT !.caught = exc, !.err = @ + 1, !.on_exc = exc]
            /\ exc' = exc
       ELSE /\ obs' = [obs EXCEPT !.caught = exc]
            /\ exc' = NoExc
    /\ UNCHANGED << _queue, _pending_keys, _ignored_log_at, _active, lib_ok,
                    now, req, session, status_code, calls, executed >>

\* req.on_error(exc) returns, or raises and the exception leaves tick()
OnError ==
    /\ pc = "on_error"
    /\ \E raises \in BOOLEAN :
         exc' = IF raises THEN "ErrorError" ELSE NoExc
    /\ pc' = "finally"
    /\ UNCHANGED << _queue, _pending_keys, _session, _ignored_log_at, _active,
                    lib_ok, now, req, session, status_code, sessions, calls,
                    executed, obs >>

\* the key is discarded at the end of the try block only
Discarded_InTry(keys, r) == IF exc = NoExc THEN keys \ {r.key} ELSE keys

\* the key is never discarded
Discarded_Never(keys, r) == keys

\* self._pending_keys.discard(req.key)
Discarded(keys, r) == keys \ {r.key}

\* the outer finally: close the session after a Connection: close, discard
\* the key, _set_io_active(False); tick() returns, or raises what is in flight
Finally ==
    /\ pc = "finally"
    /\ IF CloseRequested(req)
       THEN sessions' = Closed(sessions, _session) /\ _session' = NoSession
       ELSE UNCHANGED << _session, sessions >>
    /\ _pending_keys' = Discarded(_pending_keys, req)
    /\ _active' = SetIoActive(FALSE)
    /\ obs' = [obs EXCEPT !.done = TRUE, !.raised = exc]
    /\ pc' = "idle"
    /\ req' = NoReq
    /\ session' = NoSession
    /\ status_code' = NoStatus
    /\ exc' = NoExc
    /\ UNCHANGED << _queue, _ignored_log_at, lib_ok, now, calls, executed >>

-----------------------------------------------------------------------------
Next ==
    \/ Advance /\ UNCHANGED ext
    \/ Enqueue /\ UNCHANGED ext
    \/ TickEmpty /\ UNCHANGED ext
    \/ TickPop /\ UNCHANGED ext
    \/ TickOpen /\ UNCHANGED ext
    \/ ProgressBefore /\ UNCHANGED ext
    \/ Send /\ UNCHANGED ext
    \/ OnSuccess /\ UNCHANGED ext
    \/ InnerFinally /\ UNCHANGED ext
    \/ ProgressAfter /\ UNCHANGED ext
    \/ Except /\ UNCHANGED ext
    \/ OnError /\ UNCHANGED ext
    \/ Finally /\ UNCHANGED ext

Spec == Init /\ [][Next]_vars

-----------------------------------------------------------------------------
(* What the run so far shows: the calls accepted, the requests still waiting *)

Range(f) == { f[i] : i \in DOMAIN f }

\* ids of the accepted calls, in the order in which they were accepted
AcceptedIds == SelectSeq([i \in 1..Len(calls) |-> i], LAMBDA i : calls[i].ret)

\* ids of the waiting requests, head first
QueueIds == [i \in 1..Len(_queue) |-> _queue[i].id]

\* ids of the requests whose execution has ended
FinishedIds == Range(executed) \ {req.id}

\* accepted calls with key k whose request has not been executed to the end
InFlightCalls(k) ==
    { i \in 1..Len(calls) :
        calls[i].ret /\ calls[i].key = k /\ i \notin FinishedIds }

-----------------------------------------------------------------------------
(* C1: at most one request per key is in flight.  For every key, at most   *)
(* one accepted call is waiting or executing at any moment, and a call     *)
(* made while a request with its key is in flight returns false.           *)
C1_AtMostOneInFlight ==
    /\ \A k \in Keys : Cardinality(InFlightCalls(k)) <= 1
    /\ \A i \in 1..Len(calls) : calls[i].busy => ~calls[i].ret

\* a key is accepted, turned away while in flight, and accepted again later
C1_Witness ==
    \E i, j, k \in 1..Len(calls) :
        /\ i < j /\ j < k
        /\ calls[i].key = calls[j].key /\ calls[j].key = calls[k].key
        /\ calls[i].ret /\ ~calls[j].ret /\ calls[k].ret

(* C2: FIFO.  The requests executed so far followed by the waiting ones    *)
(* are the accepted calls in the order accepted, whoever made the calls,   *)
(* and one request at most is executing: the one popped last.              *)
C2_Fifo ==
    /\ executed \o QueueIds = AcceptedIds
    /\ (pc = "idle") <=> (req.id = 0)
    /\ req.id # 0 => executed[Len(executed)] = req.id

\* three requests were executed, one of them enqueued from a callback while
\* another was waiting
C2_Witness ==
    /\ Len(executed) = 3
    /\ \E i \in 1..Len(calls) :
          calls[i].ret /\ calls[i].during # 0 /\ calls[i].during < i - 1

(* C3: the key is released on every path.  A key is pending only while a   *)
(* request with it waits or executes, so once tick() has returned the key  *)
(* of the executed request is free, and a call whose key is not in flight  *)
(* is accepted.                                                            *)
C3_KeyReleased ==
    /\ _pending_keys \subseteq InFlightKeys
    /\ \A i \in 1..Len(calls) : ~calls[i].busy => calls[i].ret

\* tick() raised out of on_error, and the same key was accepted afterwards
C3_Witness ==
    /\ obs.done /\ obs.raised # NoExc
    /\ \E j \in 1..Len(calls) :
          j > obs.req.id /\ calls[j].ret /\ calls[j].key = obs.req.key
                         /\ calls[j].during = 0

\* the failures that end an attempt before the request is sent
PreSendFailures == {"RuntimeError", "MemoryError", "ProgressError"}

\* no id occurs twice in the sequence
NoRepeat(q) == \A m, n \in 1..Len(q) : m # n => q[m] # q[n]

(* C4 as stated: every request is popped once, is never put back, and its  *)
(* network call is issued exactly once.                                    *)
C4_Original ==
    /\ NoRepeat(executed)
    /\ FinishedIds \cap Range(QueueIds) = {}
    /\ obs.done => obs.net = 1

(* C4 amended: one attempt per accepted call.  A request is popped once    *)
(* and never put back by the queue; its network call is issued at most     *)
(* once, and exactly once unless the attempt fails before the request is   *)
(* sent (library missing, no session, on_progress raising).                *)
C4_OneAttempt ==
    /\ NoRepeat(executed)
    /\ FinishedIds \cap Range(QueueIds) = {}
    /\ obs.net <= 1
    /\ obs.done => \/ obs.net = 1
                   \/ obs.net = 0 /\ obs.caught \in PreSendFailures

\* a request failed in the transport after one network call and is gone,
\* while another request is still waiting
C4_Witness ==
    /\ obs.done /\ obs.caught = "OSError" /\ obs.net = 1
    /\ Len(_queue) > 0

\* the step is an enqueue call made while its key is in flight
DuplicateCall ==
    /\ Len(calls') = Len(calls) + 1
    /\ calls'[Len(calls')].busy

(* C5: a duplicate call returns false, leaves the queue and the pending    *)
(* set as they are, and its request is never executed: the requests that   *)
(* run, and whose callbacks are called, are those of accepted calls only.  *)
C5_DuplicateRejected ==
    /\ [](\A i \in 1..Len(calls) :
             calls[i].busy => ~calls[i].ret /\ i \notin Range(executed)
                                            /\ i \notin Range(QueueIds))
    /\ [](obs.req.id # 0 => calls[obs.req.id].ret)
    /\ [][DuplicateCall => UNCHANGED << _queue, _pending_keys >>]_vars

\* two callers used one key between two ticks, the second was turned away,
\* and the first caller's request ran once and its on_success was called
C5_Witness ==
    \E i, j \in 1..Len(calls) :
        /\ i < j /\ calls[i].key = calls[j].key
        /\ calls[i].during = 0 /\ calls[j].during = 0
        /\ calls[i].ret /\ ~calls[j].ret
        /\ obs.done /\ obs.req.id = i /\ obs.net = 1 /\ obs.succ = 1

\* the step is a tick() call on an empty queue
EmptyTick ==
    pc = "idle" /\ _queue = << >> /\ calls' = calls /\ now' = now

(* C6: one request per tick at most.  The queue shrinks only when a tick   *)
(* starts, by its head, which becomes the request executed; a tick on an   *)
(* empty queue calls nothing, marks the network idle and returns.          *)
C6_OnePerTick ==
    [][ /\ Len(_queue') < Len(_queue) =>
             /\ pc = "idle" /\ pc' = "try"
             /\ req' = Head(_queue) /\ _queue' = Tail(_queue)
        /\ executed' # executed =>
             /\ pc = "idle" /\ executed' = Append(executed, Head(_queue).id)
        /\ EmptyTick =>
             /\ pc' = "idle" /\ _active' = FALSE /\ _queue' = << >>
             /\ executed' = executed
             /\ obs'.prog = 0 /\ obs'.succ = 0 /\ obs'.err = 0 /\ obs'.net = 0
      ]_vars

\* a tick has just popped the head of three waiting requests
C6_Witness ==
    /\ pc = "try" /\ Len(_queue) = 2
    /\ QueueIds = << req.id + 1, req.id + 2 >>

(* C7: the completion callback runs inside the tick that popped the        *)
(* request.  A callback runs only while that request is the one executing, *)
(* and when tick() returns, on_success has been called if a response       *)
(* arrived and on_error if an exception was caught.                        *)
C7_CallbackInsideTick ==
    /\ pc \in CallbackPcs =>
          /\ req.id # 0 /\ req = obs.req /\ ~obs.done
          /\ executed[Len(executed)] = req.id
    /\ obs.succ + obs.err > 0 => executed[Len(executed)] = obs.req.id
    /\ obs.done =>
          /\ obs.status # NoStatus \/ obs.caught # NoExc
          /\ obs.status # NoStatus /\ obs.req.on_success => obs.succ = 1
          /\ obs.caught # NoExc /\ obs.req.on_error => obs.err = 1

\* the second tick has returned after calling the on_success of its request
C7_Witness ==
    /\ pc = "idle" /\ obs.done /\ obs.succ = 1 /\ obs.err = 0
    /\ Len(executed) = 2

\* the exceptions a callback raises after the response has arrived
CallbackFailures == {"SuccessError", "ProgressError"}

(* C8 as stated: with a response of any status, on_success is called with  *)
(* that status and on_error is not called.                                 *)
C8_Original ==
    obs.status # NoStatus =>
        /\ obs.req.on_success => obs.succ = 1 /\ obs.succ_arg = obs.status
        /\ obs.err = 0

(* C8 amended: the status is not interpreted.  With a response of any      *)
(* status, on_success (if given) is called once with that status; on_error *)
(* is called after it only with an exception raised by on_success or by    *)
(* on_progress, never on account of the status.                            *)
C8_StatusNotInterpreted ==
    obs.status # NoStatus =>
        /\ obs.status \in Statuses
        /\ obs.req.on_success => obs.succ = 1 /\ obs.succ_arg = obs.status
        /\ obs.err > 0 => obs.err = 1 /\ obs.on_exc \in CallbackFailures
        /\ obs.caught # NoExc => obs.caught \in CallbackFailures

\* a response with status 404, 500 or 0 went to on_success with that status,
\* on_error was not called and tick() returned normally
C8_Witness ==
    /\ obs.done /\ obs.status \in {404, 500, 0}
    /\ obs.succ = 1 /\ obs.succ_arg = obs.status
    /\ obs.err = 0 /\ obs.raised = NoExc

(* C9: a failed execution is reported to on_error with the exception       *)
(* caught, the session the request was sent on is closed, and no session   *)
(* is kept, so that the next request creates one.                          *)
C9_ErrorClosesSession ==
    obs.done /\ obs.caught # NoExc =>
        /\ obs.req.on_error => obs.err = 1 /\ obs.on_exc = obs.caught
        /\ obs.used # NoSession => sessions[obs.used].closed
        /\ _session = NoSession

\* the requests that were sent on session s
Users(s) == sessions[s].users

(* C10: a Connection: close request has a session of its own, which is     *)
(* closed when the request has been executed; the session the previous     *)
(* request left is closed before it is sent, and none is kept after it.    *)
C10_CloseRecreatesSession ==
    /\ \A s \in 1..Len(sessions) : \A r \in Users(s) :
          CloseRequested(r) =>
              /\ Users(s) = {r}
              /\ r.id \in FinishedIds => sessions[s].closed
    /\ pc = "send" /\ CloseRequested(req) =>
          /\ _session = NoSession
          /\ Users(session) = {}
    /\ obs.done /\ CloseRequested(obs.req) => _session = NoSession

(* C11: at most one session is live.  Of the sessions created so far, at   *)
(* most one has not been closed, so every earlier session is closed        *)
(* before another one is created.                                          *)
C11_OneLiveSession == Cardinality(Live) <= 1

-----------------------------------------------------------------------------
(* The main loop of src/pi_files/main.py, one action per call it makes.    *)
(* The brightness knob poll is left out: it touches neither the widgets    *)
(* nor the queue and catches its own exceptions.                           *)

NumWidgets == 3        \* len(widgets): announcements, train, spotify
MaxLoopCalls == 2      \* enqueue_request() calls in one run of the loop

\* display_enabled is True at line 316 and reassigned only from a
\* consume_display_toggle() result that is not None; nothing in the
\* repository sets display_toggle_requested, so the result is always None
display_enabled == TRUE

\* active_widget_index = start_map.get(start_widget, 2)
StartWidget == 2

LoopInit ==
    /\ QueueInit
    /\ lpc = "start"
    /\ panel_ok \in BOOLEAN
    /\ button_controller \in BOOLEAN
    /\ next_widget_requested = FALSE
    /\ widget_event = None
    /\ active_widget_index = StartWidget
    /\ steps = << >>
    /\ caught = NoExc
    /\ LoopOthersOff

queueState == << _queue, _pending_keys, _session, _ignored_log_at, _active,
                 lib_ok, now, pc, req, session, status_code, exc, sessions,
                 calls, executed, obs >>

\* a call of the iteration raises e: control passes to the except clause of
\* the loop with exc bound to e
LoopRaise(e) ==
    /\ lpc' = "except"
    /\ caught' = e

\* while True: try: now = time.monotonic()
LoopStart ==
    /\ lpc = "start"
    /\ lpc' = "buttons"
    /\ steps' = << >>
    /\ UNCHANGED << panel_ok, button_controller, next_widget_requested,
                    widget_event, active_widget_index, caught, queueState >>

\* _update_buttons(now): the button callbacks may record a click of button 2
\* (next widget) or of button 1 (widget event); then the panel_ok test
LoopButtons ==
    /\ lpc = "buttons"
    /\ steps' = Append(steps, "buttons")
    /\ \/ /\ IF button_controller
             THEN /\ next_widget_requested' \in {next_widget_requested, TRUE}
                  /\ widget_event' \in {widget_event, "click"}
             ELSE UNCHANGED << next_widget_requested, widget_event >>
          /\ lpc' = IF panel_ok THEN "handle" ELSE "panel_sleep"
          /\ caught' = NoExc
       \/ /\ button_controller
          /\ LoopRaise("ButtonError")
          /\ UNCHANGED << next_widget_requested, widget_event >>
    /\ UNCHANGED << panel_ok, button_controller, active_widget_index,
                    queueState >>

\* if not panel_ok: time.sleep(0.5); continue
LoopPanelSleep ==
    /\ lpc = "panel_sleep"
    /\ lpc' = "start"
    /\ UNCHANGED << panel_ok, button_controller, next_widget_requested,
                    widget_event, active_widget_index, steps, caught,
                    queueState >>

\* the index stops at the end of the list
NextWidget_NoWrap(i) == IF i + 1 < NumWidgets THEN i + 1 ELSE i

\* active_widget_index = (active_widget_index + 1) % len(widgets)
NextWidget(i) == (i + 1) % NumWidgets

\* hasattr(widget, "on_activate"): the train and the spotify widget
HasOnActivate(i) == i # 0

\* the hooks the loop calls on the widget that became active
ActivationHooks(i) ==
    << "force_refresh" >> \o
    (IF HasOnActivate(i) THEN << "on_activate" >> ELSE << >>)

\* the button handling: consume_next_widget_requested() advances the active
\* widget and calls its force_refresh() and on_activate(now), then
\* consume_widget_event() hands the event to the widget's handle_button();
\* on_activate() and handle_button() may raise; the calls the hooks make to
\* the queue are LoopWidgetEnqueue
LoopHandle ==
    /\ lpc = "handle"
    /\ IF ~button_controller
       THEN /\ lpc' = "update"
            /\ UNCHANGED << active_widget_index, next_widget_requested,
                            widget_event, steps, caught >>
       ELSE /\ next_widget_requested' = FALSE
            /\ active_widget_index' =
                 IF next_widget_requested
                 THEN NextWidget(active_widget_index)
                 ELSE active_widget_index
            /\ steps' = IF next_widget_requested
                        THEN steps \o ActivationHooks(active_widget_index')
                        ELSE steps
            /\ \/ /\ widget_event' = None
                  /\ lpc' = "update"
                  /\ UNCHANGED caught
               \/ /\ next_widget_requested
                  /\ HasOnActivate(active_widget_index')
                  /\ UNCHANGED widget_event
                  /\ LoopRaise("HookError")
               \/ /\ widget_event # None
                  /\ widget_event' = None
                  /\ LoopRaise("HookError")
    /\ UNCHANGED << panel_ok, button_controller, queueState >>

\* on_activate(), handle_button() and update() of the train and the spotify
\* widget call enqueue_get() / enqueue_post(); the announcements widget has
\* no http client
LoopWidgetEnqueue ==
    /\ lpc = "update"
    /\ active_widget_index # 0
    /\ Len(calls) < MaxLoopCalls
    /\ Enqueue
    /\ UNCHANGED loopVars

\* widget.update(now)
LoopUpdate ==
    /\ lpc = "update"
    /\ steps' = Append(steps, "update")
    /\ \/ lpc' = "render" /\ UNCHANGED caught
       \/ LoopRaise("UpdateError")
    /\ UNCHANGED << panel_ok, button_controller, next_widget_requested,
                    widget_event, active_widget_index, queueState >>

\* where the loop goes after render: past the tick
AfterRender_NoTick == "sleep"

\* where the loop goes after render
AfterRender == "tick"

\* if display_enabled: group = widget.render(layout); _set_content_group(group)
LoopRender ==
    /\ lpc = "render"
    /\ IF display_enabled
       THEN /\ steps' = Append(steps, "render")
            /\ \/ lpc' = AfterRender /\ UNCHANGED caught
               \/ LoopRaise("RenderError")
       ELSE lpc' = AfterRender /\ UNCHANGED << steps, caught >>
    /\ UNCHANGED << panel_ok, button_controller, next_widget_requested,
                    widget_event, active_widget_index, queueState >>

\* http_client.tick() is called: on an empty queue it returns at once,
\* otherwise it pops a request and executes it
LoopTick ==
    /\ lpc = "tick"
    /\ steps' = Append(steps, "tick")
    /\ \/ TickEmpty /\ lpc' = "sleep"
       \/ TickPop /\ lpc' = "in_tick"
    /\ UNCHANGED << panel_ok, button_controller, next_widget_requested,
                    widget_event, active_widget_index, caught >>

\* the steps of the running tick(), its callbacks' calls to the queue included
LoopInTick ==
    /\ lpc = "in_tick"
    /\ \/ TickOpen
       \/ ProgressBefore
       \/ Send
       \/ OnSuccess
       \/ InnerFinally
       \/ ProgressAfter
       \/ Except
       \/ OnError
       \/ Len(calls) < MaxLoopCalls /\ Enqueue
    /\ UNCHANGED loopVars

\* tick() returns, or raises the exception it has in flight
LoopTickReturn ==
    /\ lpc = "in_tick"
    /\ Finally
    /\ IF exc = NoExc
       THEN lpc' = "sleep" /\ UNCHANGED caught
       ELSE LoopRaise(exc)
    /\ UNCHANGED << panel_ok, button_controller, next_widget_requested,
                    widget_event, active_widget_index, steps >>

\* time.sleep(0.1): the iteration is over
LoopSleep ==
    /\ lpc = "sleep"
    /\ lpc' = "start"
    /\ UNCHANGED << caught, queueState >>
    /\ UNCHANGED << panel_ok, button_controller, next_widget_requested,
                    widget_event, active_widget_index, steps >>

\* the exception ends the program
AfterLoopExcept_Stop == "stopped"

\* where the loop goes after its except clause: the next iteration
AfterLoopExcept == "start"

\* except Exception as exc: print, traceback, time.sleep(0.5)
LoopExcept ==
    /\ lpc = "except"
    /\ lpc' = AfterLoopExcept
    /\ UNCHANGED << panel_ok, button_controller, next_widget_requested,
                    widget_event, active_widget_index, steps, caught,
                    queueState >>

LoopNext ==
    \/ LoopStart /\ UNCHANGED loopRest
    \/ LoopButtons /\ UNCHANGED loopRest
    \/ LoopPanelSleep /\ UNCHANGED loopRest
    \/ LoopHandle /\ UNCHANGED loopRest
    \/ LoopWidgetEnqueue /\ UNCHANGED loopRest
    \/ LoopUpdate /\ UNCHANGED loopRest
    \/ LoopRender /\ UNCHANGED loopRest
    \/ LoopTick /\ UNCHANGED loopRest
    \/ LoopInTick /\ UNCHANGED loopRest
    \/ LoopTickReturn /\ UNCHANGED loopRest
    \/ LoopSleep /\ UNCHANGED loopRest
    \/ LoopExcept /\ UNCHANGED loopRest

SpecLoop == LoopInit /\ [][LoopNext]_vars

-----------------------------------------------------------------------------
(* Claims about the main loop *)

\* the loop is at the end of an iteration: after the body ran to its end, in
\* the except clause, or in the pause taken when there is no panel
EndOfIteration == lpc \in {"sleep", "except", "panel_sleep"}

\* the number of tick() calls the current iteration has made
TickCalls == Cardinality({ i \in 1..Len(steps) : steps[i] = "tick" })

\* the iteration called tick() after the widget's update and render
TickAfterRender ==
    \E i, j, k \in 1..Len(steps) :
        /\ i < j /\ j < k
        /\ steps[i] = "update" /\ steps[j] = "render" /\ steps[k] = "tick"

(* C12 as stated: every iteration of the main loop calls tick() exactly    *)
(* once, after the update and the render of the same iteration.            *)
C12_Original == EndOfIteration => (TickCalls = 1 /\ TickAfterRender)

(* C12: no iteration of the main loop calls tick() more than once, a       *)
(* tick() call comes after the update and the render of its iteration,     *)
(* and every iteration whose body runs to its end has called tick()        *)
(* exactly once; an iteration cut short by an exception raised before the  *)
(* tick, or by the missing panel, has called it zero times.                *)
C12_OneTickAfterRender ==
    /\ TickCalls <= 1
    /\ TickCalls = 1 => TickAfterRender
    /\ lpc = "sleep" => TickCalls = 1
    /\ lpc = "panel_sleep" => TickCalls = 0
    /\ (lpc = "except" /\ caught \in {"ButtonError", "HookError",
                                      "UpdateError", "RenderError"})
           => TickCalls = 0

\* an iteration ran to its end: it executed a request in its one tick
C12_Witness ==
    /\ lpc = "sleep"
    /\ steps = << "buttons", "update", "render", "tick" >>
    /\ obs.done

(* C13: an exception raised inside an iteration never stops the main loop. *)
(* The loop is never stopped, an exception raised by the button handling,  *)
(* the update, the render or the tick (a raising on_error included) is in  *)
(* the loop's except clause, and the step after the except clause is the   *)
(* start of a further iteration.                                           *)
C13_ExceptionNeverStopsLoop ==
    /\ [](lpc \in {"start", "buttons", "panel_sleep", "handle", "update",
                   "render", "tick", "in_tick", "sleep", "except"})
    /\ [][caught' # caught /\ caught' # NoExc => lpc' = "except"]_vars
    /\ [][lpc = "except" => lpc' = "start"]_vars
    /\ [][lpc = "in_tick" /\ pc = "finally" /\ exc # NoExc
            => lpc' = "except" /\ caught' = exc]_vars

\* a further iteration runs after tick() raised what on_error raised
C13_Witness ==
    /\ lpc = "buttons"
    /\ caught = "ErrorError"
    /\ obs.raised = "ErrorError"

-----------------------------------------------------------------------------
(* The Spotify client of src/pi_files/api/spotify_api.py.  Its callers are *)
(* numbered in the order of their request_currently_playing() calls; a     *)
(* request in the queue carries its key and the caller whose callbacks its *)
(* handlers hold.  _queue, _pending_keys, req, pc and now are the request  *)
(* queue's and the clock's; pc = "callback" while a caller's on_update or  *)
(* on_error runs inside the handler of the request tick() is executing.    *)

MaxSpotifyCalls == 3       \* request_currently_playing() calls in one run
MaxSpotifyAdvances == 2    \* clock advances in one run
SpotifyClockStep == 3600   \* seconds the clock advances at a time
ShortExpiry == 30          \* an expires_in below the early-refresh margin

DefaultExpiry == 3600      \* payload.get("expires_in", 3600)
RefreshEarly == 60         \* max(0, expires_in - 60)

\* the expires_in values of the token responses
ExpiresIn == {ShortExpiry, DefaultExpiry}

TokenKey == "spotify_token"
NowPlayingKey == "spotify_now_playing"

Max(a, b) == IF a >= b THEN a ELSE b

queueRest == << _session, _ignored_log_at, _active, lib_ok, session,
                status_code, exc, sessions, calls, executed, obs >>

SpotifyInit ==
    /\ QueueInit
    /\ SpotifyOthersOff
    /\ has_credentials \in BOOLEAN
    /\ access_token = None
    /\ _token_expires_at = 0
    /\ _refresh_inflight = FALSE
    /\ _after_refresh = << >>
    /\ last_error_stage = ""
    /\ last_error = None
    /\ sp_calls = << >>
    /\ continued = {}
    /\ notified = {}
    /\ completed = {}
    /\ inval = "no"

\* _token_valid()
TokenValid_NoDeadline == access_token # None

TokenValid == access_token # None /\ now < _token_expires_at

\* no key is ever taken for a duplicate
SpotifyDuplicate_Never(keys, key) == FALSE

\* enqueue_request(): is the key waiting or executing
SpotifyDuplicate(keys, key) == key \in keys

\* enqueue_get() / enqueue_post() with the key and the handlers of a caller:
\* the queue and the pending keys afterwards, and the value returned
SpotifyEnqueue(st, key, caller) ==
    IF SpotifyDuplicate(st.keys, key)
    THEN [queue |-> st.queue, keys |-> st.keys, ret |-> FALSE]
    ELSE [queue |-> Append(st.queue, [key |-> key, caller |-> caller]),
          keys |-> st.keys \cup {key}, ret |-> TRUE]

\* the token requests waiting or executing
TokenRequests ==
    { i \in 1..Len(_queue) : _queue[i].key = TokenKey }

TokenRequestsInFlight ==
    Cardinality(TokenRequests) + (IF req # NoReq /\ req.key = TokenKey THEN 1 ELSE 0)

\* the caller that owns the token request waiting or executing, 0 if none
RefreshOwner ==
    IF TokenRequests # {}
    THEN _queue[CHOOSE i \in TokenRequests : TRUE].caller
    ELSE IF req # NoReq /\ req.key = TokenKey THEN req.caller ELSE 0

\* the record kept of a call: what it returned, what it did, whether it
\* invoked on_error before returning, the owner of the refresh it waits on,
\* whether it is the first call after a 401, and the caller whose request was
\* executing when it was made
SpotifyCall(ret, did, sync, refresh) ==
    [ret |-> ret, did |-> did, sync |-> sync, refresh |-> refresh,
     stale |-> inval = "fresh",
     during |-> IF req = NoReq THEN 0 ELSE req.caller,
     token |-> access_token # None,
     early |-> now < _token_expires_at]

\* _set_error(exc, stage)
SetError_StageOnly(e, stage) ==
    /\ last_error' = last_error
    /\ last_error_stage' = stage

SetError(e, stage) ==
    /\ last_error' = e
    /\ last_error_stage' = stage

\* _clear_error()
ClearError ==
    /\ last_error' = None
    /\ last_error_stage' = ""

\* the flag stays up when the token request was refused
InflightAfter_Kept(started) == TRUE

\* _request_token: self._refresh_inflight = True, and
\* "if not started: self._refresh_inflight = False"
InflightAfter(started) == started

\* request_currently_playing(on_update, on_error, timeout), made by the
\* widget code between two ticks or by a callback
RequestCurrentlyPlaying ==
    LET c == Len(sp_calls) + 1
        st == [queue |-> _queue, keys |-> _pending_keys]
    IN  /\ pc \in {"idle", "callback"}
        /\ c <= MaxSpotifyCalls
        /\ inval' = IF inval = "fresh" THEN "called" ELSE inval
        /\ IF ~has_credentials
           THEN \* _set_error(err, "config"); on_error(err); return False
                /\ SetError("Spotify credentials missing", "config")
                /\ sp_calls' = Append(sp_calls, SpotifyCall(FALSE, "config", TRUE, 0))
                /\ UNCHANGED << _queue, _pending_keys, _refresh_inflight,
                                _after_refresh >>
           ELSE IF ~TokenValid
           THEN \* _request_token(after_refresh, on_error, timeout)
                /\ _after_refresh' = Append(_after_refresh, c)
                /\ IF _refresh_inflight
                   THEN /\ sp_calls' = Append(sp_calls,
                              SpotifyCall(TRUE, "coalesced", FALSE, RefreshOwner))
                        /\ UNCHANGED << _queue, _pending_keys, _refresh_inflight >>
                   ELSE LET e == SpotifyEnqueue(st, TokenKey, c)
                        IN  /\ _queue' = e.queue
                            /\ _pending_keys' = e.keys
                            /\ _refresh_inflight' = InflightAfter(e.ret)
                            /\ sp_calls' = Append(sp_calls,
                                  SpotifyCall(e.ret,
                                      IF e.ret THEN "post" ELSE "post_rejected",
                                      FALSE, IF e.ret THEN c ELSE 0))
                /\ UNCHANGED << last_error, last_error_stage >>
           ELSE IF access_token = None
           THEN \* _enqueue_now_playing: the access token is missing
                /\ SetError("Spotify access token missing", "token")
                /\ sp_calls' = Append(sp_calls, SpotifyCall(FALSE, "no_token", TRUE, 0))
                /\ UNCHANGED << _queue, _pending_keys, _refresh_inflight,
                                _after_refresh >>
           ELSE \* _enqueue_now_playing(on_update, on_error, timeout)
                LET e == SpotifyEnqueue(st, NowPlayingKey, c)
                IN  /\ _queue' = e.queue
                    /\ _pending_keys' = e.keys
                    /\ sp_calls' = Append(sp_calls,
                          SpotifyCall(e.ret,
                              IF e.ret THEN "get" ELSE "get_rejected", FALSE, 0))
                    /\ UNCHANGED << _refresh_inflight, _after_refresh,
                                    last_error, last_error_stage >>
        /\ UNCHANGED << has_credentials, access_token, _token_expires_at,
                        continued, notified, completed, now, pc, req,
                        queueRest, spotifyRest >>

\* for callback in callbacks: callback(), each a caller's
\* _enqueue_now_playing(); the access token has just been stored
RECURSIVE RunCallbacks(_, _)
RunCallbacks(callbacks, st) ==
    IF callbacks = << >>
    THEN st
    ELSE RunCallbacks(Tail(callbacks),
                      SpotifyEnqueue(st, NowPlayingKey, Head(callbacks)))

\* the token stays usable after a 401
Invalidated_Keep(t) == t

\* status 401: self._token_expires_at = 0.0
Invalidated(t) == 0

\* tick() pops the token request and gets no response, or the library is
\* missing: _handle_error(exc) drops the waiting callers and calls the
\* owner's on_error
TokenError ==
    /\ pc = "idle"
    /\ _queue # << >>
    /\ Head(_queue).key = TokenKey
    /\ req' = Head(_queue)
    /\ _queue' = Tail(_queue)
    /\ _refresh_inflight' = FALSE
    /\ SetError("no token response", "token")
    /\ _after_refresh' = << >>
    /\ completed' = completed \cup {Head(_queue).caller}
    /\ notified' = notified \cup {Head(_queue).caller}
    /\ pc' = "callback"
    /\ UNCHANGED << _pending_keys, has_credentials, access_token,
                    _token_expires_at, sp_calls, continued, inval, now,
                    queueRest, spotifyRest >>

\* the token response has a status >= 400 or no access_token: _handle_success
\* calls the owner's on_error and leaves _after_refresh as it is
TokenRefused ==
    /\ pc = "idle"
    /\ _queue # << >>
    /\ Head(_queue).key = TokenKey
    /\ req' = Head(_queue)
    /\ _queue' = Tail(_queue)
    /\ _refresh_inflight' = FALSE
    /\ \E e \in {"Spotify token error", "Spotify token missing in response",
                 "token response does not parse"} : SetError(e, "token")
    /\ completed' = completed \cup {Head(_queue).caller}
    /\ notified' = notified \cup {Head(_queue).caller}
    /\ pc' = "callback"
    /\ UNCHANGED << _pending_keys, has_credentials, access_token,
                    _token_expires_at, _after_refresh, sp_calls, continued,
                    inval, now, queueRest, spotifyRest >>

\* the token response carries an access token: _handle_success stores it,
\* invokes the waiting continuations in order and returns; the finally block
\* of tick() then discards the key
TokenGranted ==
    /\ pc = "idle"
    /\ _queue # << >>
    /\ Head(_queue).key = TokenKey
    /\ \E expires_in \in ExpiresIn :
          _token_expires_at' = now + Max(0, expires_in - RefreshEarly)
    /\ _refresh_inflight' = FALSE
    /\ access_token' = "token"
    /\ ClearError
    /\ _after_refresh' = << >>
    /\ LET st == RunCallbacks(_after_refresh,
                     [queue |-> Tail(_queue), keys |-> _pending_keys])
       IN  /\ _queue' = st.queue
           /\ _pending_keys' = Discarded(st.keys, Head(_queue))
    /\ continued' = continued \cup Range(_after_refresh)
    /\ completed' = completed \cup {Head(_queue).caller}
    /\ inval' = "no"
    /\ UNCHANGED << has_credentials, sp_calls, notified, now, pc, req,
                    queueRest, spotifyRest >>

\* what tick() gets for the now-playing request: a status of 204, a payload
\* that is applied, a status of 401, another status of 400 and more, a payload
\* that raises while it is parsed or applied, or no response
NowPlayingOutcomes == {"204", "payload", "Spotify access token expired",
                       "Spotify API error", "payload raises", "no response"}

\* the stage _handle_success and _handle_error of the now-playing request
\* tag the error with
NowPlayingStage(outcome) ==
    CASE outcome \in {"204", "payload"} -> ""
      [] outcome = "Spotify access token expired" -> "token"
      [] outcome = "Spotify API error" -> "now_playing"
      [] outcome = "payload raises" -> "parse"
      [] outcome = "no response" -> "request"

\* tick() pops the now-playing request: its handlers call the caller's
\* on_update (status 204, or a payload applied) or on_error (no response,
\* status 401, another status >= 400, a payload that does not parse)
NowPlayingDone ==
    /\ pc = "idle"
    /\ _queue # << >>
    /\ Head(_queue).key = NowPlayingKey
    /\ req' = Head(_queue)
    /\ _queue' = Tail(_queue)
    /\ \E outcome \in NowPlayingOutcomes :
           /\ IF NowPlayingStage(outcome) = ""
              THEN ClearError
              ELSE SetError(outcome, NowPlayingStage(outcome))
           /\ IF outcome = "Spotify access token expired"
              THEN /\ _token_expires_at' = Invalidated(_token_expires_at)
                   /\ inval' = "fresh"
              ELSE UNCHANGED << _token_expires_at, inval >>
    /\ notified' = notified \cup {Head(_queue).caller}
    /\ pc' = "callback"
    /\ UNCHANGED << _pending_keys, has_credentials, access_token,
                    _refresh_inflight, _after_refresh, sp_calls, continued,
                    completed, now, queueRest, spotifyRest >>

\* the callback returns; the finally block of tick() discards the key
SpotifyTickReturn ==
    /\ pc = "callback"
    /\ pc' = "idle"
    /\ _pending_keys' = Discarded(_pending_keys, req)
    /\ req' = NoReq
    /\ UNCHANGED << _queue, now, queueRest, spotifyRest, spotifyVars >>

\* time.monotonic() advances
SpotifyAdvance ==
    /\ now < MaxSpotifyAdvances * SpotifyClockStep
    /\ now' = now + SpotifyClockStep
    /\ UNCHANGED << _queue, _pending_keys, pc, req, queueRest, spotifyRest,
                    spotifyVars >>

SpotifyNext ==
    \/ RequestCurrentlyPlaying /\ UNCHANGED pollVars
    \/ TokenError /\ UNCHANGED pollVars
    \/ TokenRefused /\ UNCHANGED pollVars
    \/ TokenGranted /\ UNCHANGED pollVars
    \/ NowPlayingDone /\ UNCHANGED pollVars
    \/ SpotifyTickReturn /\ UNCHANGED pollVars
    \/ SpotifyAdvance /\ UNCHANGED pollVars

SpecSpotify == SpotifyInit /\ [][SpotifyNext]_vars

-----------------------------------------------------------------------------
(* Claims about the Spotify client *)

(* C14: at most one token request is queued or executing at any time,      *)
(* however many callers wait for the refresh; a call made while a refresh  *)
(* is in flight enqueues no token request.                                 *)
C14_OneTokenRequest ==
    /\ TokenRequestsInFlight <= 1
    /\ \A i \in 1..Len(sp_calls) :
          sp_calls[i].did = "coalesced" => sp_calls[i].refresh # i

\* two callers wait on the one token request of a third
C14_Witness ==
    /\ TokenRequestsInFlight = 1
    /\ _refresh_inflight
    /\ Len(_after_refresh) = 3
    /\ \E i, j \in 1..Len(sp_calls) :
          /\ i # j
          /\ sp_calls[i].did = "coalesced"
          /\ sp_calls[j].did = "coalesced"

(* C15: every caller coalesced onto an in-flight token refresh is notified *)
(* when that refresh completes: once the handler of the token request has  *)
(* run, the caller's continuation or one of its callbacks was invoked.     *)
C15_CoalescedNotified ==
    \A i \in 1..Len(sp_calls) :
        (sp_calls[i].did = "coalesced" /\ sp_calls[i].refresh \in completed)
            => i \in continued \cup notified

\* the first call after a 401 was made
StaleCalls == { i \in 1..Len(sp_calls) : sp_calls[i].stale }

\* no now-playing request waits in the queue
NoNowPlayingQueued == \A i \in 1..Len(_queue) : _queue[i].key # NowPlayingKey

(* C16 as stated: after a 401 the token is invalid, the next               *)
(* request_currently_playing() call enqueues a token request, and no       *)
(* now-playing request is enqueued until a refresh has succeeded.          *)
C16_Original ==
    /\ inval # "no" => (~TokenValid /\ NoNowPlayingQueued)
    /\ \A i \in StaleCalls : sp_calls[i].did = "post"

(* C16: after a 401 the token is invalid and no now-playing request is     *)
(* enqueued until a refresh has succeeded; the next                        *)
(* request_currently_playing() call enqueues a token request unless one is *)
(* already queued or executing, in which case the call is coalesced onto   *)
(* it or, made from the error callback of that token request, rejected.    *)
C16_RefreshAfter401 ==
    /\ inval # "no" => (~TokenValid /\ NoNowPlayingQueued)
    /\ \A i \in StaleCalls :
          /\ sp_calls[i].did \in {"post", "coalesced", "post_rejected"}
          /\ sp_calls[i].did = "coalesced" => sp_calls[i].refresh # 0
          /\ sp_calls[i].did = "post_rejected" => sp_calls[i].during # 0

\* the call after a 401 enqueued a token request, the refresh succeeded and
\* the now-playing request of that caller is in the queue again
C16_Witness ==
    /\ inval = "no"
    /\ \E i \in StaleCalls :
          /\ sp_calls[i].did = "post"
          /\ i \in continued
          /\ \E k \in 1..Len(_queue) :
                _queue[k] = [key |-> NowPlayingKey, caller |-> i]

-----------------------------------------------------------------------------
(* The transit source (MuniStop), the weather source (WeatherClient) and   *)
(* the train widget that owns them.  The widget's callbacks only set its   *)
(* own flags, so a tick() that executes one of its requests is one step.   *)

MaxTransitCalls == 3       \* MuniStop.request_refresh() calls in one run
MaxTrainAdvances == 4      \* clock advances in one run
TrainClockStep == 15       \* seconds the clock advances at a time

RefreshSeconds == 30       \* TrainTimeWidget(refresh_seconds=30)
ActivateDelay == 2         \* on_activate: now_monotonic + 2.0

StopUrl == "stop_url"           \* the StopMonitoring URL of the stop
WeatherUrl == "weather_url"     \* WeatherClient._build_url()

BadStopCode == << "Bad stop code", "Update config" >>

\* the provider error messages a transit response may carry: none,
\* "Invalid stop code", "Invalid StopCode", "Stop not found", "Bad access code"
Messages ==
    { NoMessage,
      [stop |-> TRUE,  code |-> TRUE,  stopcode |-> FALSE, text |-> TRUE],
      [stop |-> TRUE,  code |-> TRUE,  stopcode |-> TRUE,  text |-> TRUE],
      [stop |-> TRUE,  code |-> FALSE, stopcode |-> FALSE, text |-> TRUE],
      [stop |-> FALSE, code |-> TRUE,  stopcode |-> FALSE, text |-> TRUE] }

\* the arrivals a transit response may list, by route
Arrivals == { << >>, << "N" >>, << "N", "J" >> }

TrainInit ==
    /\ QueueInit
    /\ TrainOthersOff
    /\ TrainOff

\* only a message with the one word "stopcode" counts
ErrorMentionsStopCode_OneWord(m) == m.stopcode

\* _error_mentions_stop_code(message)
ErrorMentionsStopCode(m) == m.stop /\ (m.code \/ m.stopcode)

\* _sync_error_state(): bool(fatal or error)
SyncErrorState(fatal, stop_error, weather_error) ==
    fatal # NoLines \/ stop_error # None \/ weather_error # None

\* enqueue_get(url, ...) without a key: the URL is the key
UrlEnqueued(q, keys, url) ==
    IF url \in keys THEN q ELSE Append(q, [key |-> url])

\* update(): if now_monotonic >= self.next_refresh
UpdateRefreshes == now >= next_refresh

\* widget.update(now): when the deadline has passed, request_refresh() asks
\* the transit source and the weather source and the deadline moves on
TrainUpdate ==
    /\ IF UpdateRefreshes
       THEN /\ transit_calls < MaxTransitCalls
            /\ LET q1 == UrlEnqueued(_queue, _pending_keys, StopUrl)
                   k1 == _pending_keys \cup {StopUrl}
               IN  /\ _queue' = UrlEnqueued(q1, k1, WeatherUrl)
                   /\ _pending_keys' = k1 \cup {WeatherUrl}
            /\ next_refresh' = now + RefreshSeconds
            /\ transit_calls' = transit_calls + 1
       ELSE UNCHANGED << _queue, _pending_keys, next_refresh, transit_calls >>
    /\ UNCHANGED << trains, fatal_error_lines, stop_last_error,
                    weather_last_error, data_ready, error_state, fatal_seen,
                    last_message, now, pc, req, queueRest, trainRest >>

\* the widget becomes the active one: force_refresh() and on_activate(now)
TrainActivate ==
    /\ data_ready' = FALSE
    /\ next_refresh' = Max(0, now + ActivateDelay)   \* force_refresh() left 0.0
    /\ UNCHANGED << trains, fatal_error_lines, stop_last_error,
                    weather_last_error, error_state, transit_calls,
                    fatal_seen, last_message, _queue, _pending_keys, now,
                    pc, req, queueRest, trainRest >>

\* widget.render(layout) begins with _sync_error_state()
TrainRender ==
    /\ error_state' = SyncErrorState(fatal_error_lines, stop_last_error,
                                     weather_last_error)
    /\ UNCHANGED << trains, fatal_error_lines, stop_last_error,
                    weather_last_error, next_refresh, data_ready,
                    transit_calls, fatal_seen, last_message, _queue,
                    _pending_keys, now, pc, req, queueRest, trainRest >>

\* tick() executes the transit request and the response parses: _apply_payload
\* records a bad stop code or the arrivals, last_error is cleared and the
\* widget's _on_train_update runs
TransitResponse ==
    /\ _queue # << >>
    /\ Head(_queue).key = StopUrl
    /\ _queue' = Tail(_queue)
    /\ _pending_keys' = Discarded(_pending_keys, Head(_queue))
    /\ \E m \in Messages :
          /\ last_message' = m
          /\ IF m.text /\ ErrorMentionsStopCode(m)
             THEN /\ fatal_error_lines' = BadStopCode
                  /\ trains' = << >>
                  /\ fatal_seen' = TRUE
             ELSE /\ fatal_error_lines' = NoLines
                  /\ trains' \in Arrivals
                  /\ UNCHANGED fatal_seen
    /\ stop_last_error' = None
    /\ data_ready' = TRUE
    /\ error_state' = SyncErrorState(fatal_error_lines', stop_last_error',
                                     weather_last_error)
    /\ UNCHANGED << weather_last_error, next_refresh, transit_calls, now, pc,
                    req, queueRest, trainRest >>

\* tick() executes the transit request and it fails: no response, or a body
\* that does not parse (before or after _apply_payload cleared the fatal
\* slot); last_error is set and the widget's _on_train_error runs
TransitError ==
    /\ _queue # << >>
    /\ Head(_queue).key = StopUrl
    /\ _queue' = Tail(_queue)
    /\ _pending_keys' = Discarded(_pending_keys, Head(_queue))
    /\ last_message' = NoMessage
    /\ fatal_error_lines' \in {fatal_error_lines, NoLines}
    /\ stop_last_error' \in {"OSError", "ValueError"}
    /\ data_ready' = TRUE
    /\ error_state' = SyncErrorState(fatal_error_lines', stop_last_error',
                                     weather_last_error)
    /\ UNCHANGED << trains, weather_last_error, next_refresh, transit_calls,
                    fatal_seen, now, pc, req, queueRest, trainRest >>

\* tick() executes the weather request: last_error is cleared or set and the
\* widget's _on_weather_update or _on_weather_error runs
WeatherDone ==
    /\ _queue # << >>
    /\ Head(_queue).key = WeatherUrl
    /\ _queue' = Tail(_queue)
    /\ _pending_keys' = Discarded(_pending_keys, Head(_queue))
    /\ weather_last_error' \in {None, "OSError"}
    /\ data_ready' = TRUE
    /\ error_state' = SyncErrorState(fatal_error_lines, stop_last_error,
                                     weather_last_error')
    /\ UNCHANGED << trains, fatal_error_lines, stop_last_error, next_refresh,
                    transit_calls, fatal_seen, last_message, now, pc, req,
                    queueRest, trainRest >>

\* time.monotonic() advances
TrainAdvance ==
    /\ now < MaxTrainAdvances * TrainClockStep
    /\ now' = now + TrainClockStep
    /\ UNCHANGED << _queue, _pending_keys, pc, req, queueRest, trainRest,
                    trainVars >>

TrainNext ==
    \/ TrainUpdate
    \/ TrainActivate
    \/ TrainRender
    \/ TransitResponse
    \/ TransitError
    \/ WeatherDone
    \/ TrainAdvance

SpecTrain == TrainInit /\ [][TrainNext]_vars

-----------------------------------------------------------------------------
(* Claims about the transit source and the train widget *)

(* C17: when the transit response handled last carried a provider error    *)
(* message that mentions "stop" and "code", the transit source has         *)
(* fatal_error_lines set, no arrivals and last_error cleared, and the      *)
(* train widget is in its error state.                                     *)
C17_FatalBadStopCode ==
    (last_message.text /\ last_message.stop /\ last_message.code) =>
        /\ fatal_error_lines = BadStopCode
        /\ trains = << >>
        /\ stop_last_error = None
        /\ error_state

\* "Invalid stop code" was handled after arrivals had been shown; neither
\* source has a last_error, so the error state is due to the fatal slot
C17_Witness ==
    /\ last_message = [stop |-> TRUE, code |-> TRUE, stopcode |-> FALSE,
                       text |-> TRUE]
    /\ transit_calls >= 2
    /\ fatal_error_lines = BadStopCode
    /\ stop_last_error = None
    /\ weather_last_error = None
    /\ error_state

(* C18: once the transit source has recorded the bad stop code, the train  *)
(* widget makes no further MuniStop.request_refresh() call.                *)
C18_NoRefreshAfterFatal ==
    [][fatal_seen => transit_calls' = transit_calls]_vars

-----------------------------------------------------------------------------
(* C19: a request method of a data source never invokes on_update or       *)
(* on_error before it returns: no request_currently_playing() call, made   *)
(* in any state of the client, called its on_error synchronously.          *)
C19_NoSynchronousCallback ==
    \A i \in 1..Len(sp_calls) : ~sp_calls[i].sync

-----------------------------------------------------------------------------
(* The moving epoch: get_utc_epoch() of the transit and the weather source.*)
(* Clock values are counted in fractions of a second, Resolution to the    *)
(* second, so that a difference of two clock values has a fractional part. *)

Resolution == 2        \* clock values per second
MaxMono == 6           \* the clock values are 0..MaxMono
MinEpoch == 100        \* the smallest server epoch of a response

\* the server epochs the responses carry
Epochs == { MinEpoch, MinEpoch + 1 }

EpochInit ==
    /\ QueueInit
    /\ EpochOthersOff
    /\ source \in {"muni", "weather"}
    /\ server_epoch = Nothing
    /\ _last_update_monotonic = Nothing
    /\ mono = 0
    /\ asked = Nothing
    /\ answer = Nothing
    /\ prev_asked = Nothing
    /\ prev_answer = Nothing

\* int(x) of a float x = d / Resolution: the fraction is dropped, towards zero
IntOf(d) ==
    IF d >= 0 THEN d \div Resolution ELSE -((-d) \div Resolution)

\* the elapsed seconds are added as they are
Elapsed_Signed(delta) == delta

\* max(0, delta)
Elapsed(delta) == Max(0, delta)

\* MuniStop.get_utc_epoch(now_monotonic)
MuniGetUtcEpoch(response_epoch, last_update, now_monotonic) ==
    IF response_epoch = Nothing \/ last_update = Nothing
    THEN Nothing
    ELSE response_epoch + Elapsed(IntOf(now_monotonic - last_update))

\* WeatherClient.get_utc_epoch(now_monotonic)
WeatherGetUtcEpoch(current_epoch, last_update, now_monotonic) ==
    IF current_epoch = Nothing \/ last_update = Nothing
    THEN Nothing
    ELSE current_epoch + Elapsed(IntOf(now_monotonic - last_update))

epochRest == << queueState, epochOthers >>

\* a response is handled: its server epoch (if it has one) is stored and the
\* clock is read
EpochCapture ==
    /\ server_epoch' \in Epochs \cup {Nothing}
    /\ _last_update_monotonic' = mono
    /\ asked' = Nothing
    /\ answer' = Nothing
    /\ prev_asked' = Nothing
    /\ prev_answer' = Nothing
    /\ UNCHANGED << source, mono, epochRest >>

\* time.monotonic() advances
EpochAdvance ==
    /\ mono < MaxMono
    /\ mono' = mono + 1
    /\ UNCHANGED << source, server_epoch, _last_update_monotonic, asked,
                    answer, prev_asked, prev_answer, epochRest >>

\* get_utc_epoch(now_monotonic) with a clock value read earlier or later, or
\* get_utc_epoch() reading the clock itself
EpochQuery ==
    /\ \E t \in 0..MaxMono :
          /\ asked' = t
          /\ answer' = IF source = "muni"
                       THEN MuniGetUtcEpoch(server_epoch,
                                            _last_update_monotonic, t)
                       ELSE WeatherGetUtcEpoch(server_epoch,
                                               _last_update_monotonic, t)
    /\ prev_asked' = asked
    /\ prev_answer' = answer
    /\ UNCHANGED << source, server_epoch, _last_update_monotonic, mono,
                    epochRest >>

EpochNext ==
    \/ EpochCapture
    \/ EpochAdvance
    \/ EpochQuery

SpecEpoch == EpochInit /\ [][EpochNext]_vars

(* C20: with server epoch E captured at clock value M, the epoch computed  *)
(* for now >= M is E plus the whole seconds elapsed, for now < M it is E;  *)
(* it is never below E and never decreases as now increases.               *)
C20_EpochExtrapolation ==
    (server_epoch # Nothing /\ _last_update_monotonic # Nothing
        /\ asked # Nothing) =>
        /\ asked >= _last_update_monotonic =>
              answer = server_epoch
                       + ((asked - _last_update_monotonic) \div Resolution)
        /\ asked < _last_update_monotonic => answer = server_epoch
        /\ answer >= server_epoch
        /\ (prev_asked # Nothing /\ prev_asked <= asked) => prev_answer <= answer
        /\ (prev_asked # Nothing /\ prev_asked >= asked) => prev_answer >= answer

\* the epoch was asked for a clock value a full second and a fraction before
\* the capture, after it had been asked for one more than a second after it
C20_Witness ==
    /\ server_epoch # Nothing
    /\ asked # Nothing
    /\ prev_asked # Nothing
    /\ asked + Resolution < _last_update_monotonic
    /\ prev_asked > _last_update_monotonic + Resolution
    /\ answer = server_epoch
    /\ prev_answer > server_epoch

-----------------------------------------------------------------------------
(* C21: the button handling of an iteration that consumes a next-widget    *)
(* event sets the active-widget index to (index + 1) modulo the number of  *)
(* widgets and calls the hooks of the newly active widget; no other step   *)
(* changes the index, which is always a valid index.                       *)
C21_NextWidget ==
    /\ [](active_widget_index \in 0..(NumWidgets - 1))
    /\ [][(lpc = "handle" /\ button_controller /\ next_widget_requested)
            => /\ active_widget_index' = (active_widget_index + 1) % NumWidgets
               /\ \E k \in 1..Len(steps') : steps'[k] = "force_refresh"
               /\ active_widget_index' # 0
                     => \E k \in 1..Len(steps') : steps'[k] = "on_activate"]_vars
    /\ [][~(lpc = "handle" /\ button_controller /\ next_widget_requested)
            => active_widget_index' = active_widget_index]_vars

\* the index wrapped around from the last widget to the first, whose
\* force_refresh() was called, and the iteration went on to its tick
C21_Witness ==
    /\ active_widget_index = 0
    /\ steps = << "buttons", "force_refresh", "update", "render", "tick" >>

-----------------------------------------------------------------------------
(* The buttons.  ButtonController.update(now) is called once per iteration  *)
(* of the main loop with time.monotonic().  Time is counted in half         *)
(* seconds, the hold threshold main.py configures.                          *)

MaxPollTime == 12   \* the polls stop at this reading of the clock
MaxPollGap == 4     \* the longest time between two polls

hold_seconds == 1        \* button_hold_seconds of main.py: 0.5 s
long_hold_seconds == 10  \* 5.0 s
combo_hold_seconds == 2  \* 1.0 s

ButtonInit ==
    /\ QueueInit
    /\ ButtonOthersOff
    /\ ButtonsOff

loopNoButtons == << lpc, panel_ok, button_controller, active_widget_index,
                    steps, caught >>

buttonRest == << queueState, loopNoButtons, buttonOthers >>

\* Button.update(t) with the pin reading pressed or not: the Button
\* afterwards and the callbacks it invoked
ButtonUpdate(b, pressed, t) ==
    LET down == IF pressed /\ ~b._pressed
                THEN [_pressed |-> TRUE, _press_start |-> t,
                      _long_hold_fired |-> FALSE]
                ELSE b
        long == /\ pressed
                /\ down._pressed
                /\ ~down._long_hold_fired
                /\ down._press_start # Nothing
                /\ t - down._press_start >= long_hold_seconds
        held == IF long THEN [down EXCEPT !._long_hold_fired = TRUE] ELSE down
    IN  IF ~pressed /\ held._pressed
        THEN [b |-> NewButton,
              invoked |->
                  IF held._long_hold_fired THEN << >>
                  ELSE IF /\ held._press_start # Nothing
                          /\ t - held._press_start >= hold_seconds
                       THEN << "hold" >>
                       ELSE << "click" >>]
        ELSE [b |-> held,
              invoked |-> IF long THEN << "long_hold" >> ELSE << >>]

\* the callbacks of a button as the controller names them
Named(n, invoked) == [k \in 1..Len(invoked) |-> << n, invoked[k] >>]

\* every callback returns at once while the actions are suppressed
TakesEffect(suppress, invoked) == IF suppress THEN << >> ELSE invoked

\* the combination ends the suppression only when no button is pressed
SuppressCleared_Whenever(active) == TRUE

SuppressCleared(active) == ~active

\* the combination detection at the end of ButtonController.update(t)
ComboDetect(b1, b2, t) ==
    IF b1._pressed /\ b2._pressed
    THEN IF _combo_start = Nothing
         THEN /\ _combo_start' = t
              /\ _combo_fired' = FALSE
              /\ _suppress_actions' = _suppress_actions
         ELSE IF ~_combo_fired /\ t - _combo_start >= combo_hold_seconds
         THEN /\ _combo_fired' = TRUE
              /\ _suppress_actions' = TRUE
              /\ _combo_start' = _combo_start
         ELSE UNCHANGED << _combo_start, _combo_fired, _suppress_actions >>
    ELSE /\ _combo_start' = Nothing
         /\ _combo_fired' = _combo_fired
         /\ _suppress_actions' =
                IF /\ _suppress_actions
                   /\ SuppressCleared(b1._pressed \/ b2._pressed)
                THEN FALSE ELSE _suppress_actions

\* what the pins have read, whatever the program does with it
PinsRead(raw1, raw2, t) ==
    /\ held_since' = IF raw1 /\ raw2
                     THEN IF held_since = Nothing THEN t ELSE held_since
                     ELSE Nothing
    /\ reached' = IF ~raw1 /\ ~raw2 THEN FALSE
                  ELSE \/ reached
                       \/ /\ raw1 /\ raw2
                          /\ held_since # Nothing
                          /\ t - held_since >= combo_hold_seconds

\* ButtonController.display_enabled: True in __init__, assigned nowhere else
controller_display_enabled == TRUE

ToggleRequested_OnLongHold(flag, effects) ==
    flag \/ \E k \in 1..Len(effects) : effects[k][2] = "long_hold"

\* display_toggle_requested after the callbacks of one update() that took
\* effect: _button1_click, _button1_hold, _button2_click, _button2_hold and
\* _button2_long_hold leave it alone (_button1_long_hold resets the board)
ToggleRequested(flag, effects) == flag

\* consume_display_toggle(): display_enabled if display_toggle_requested,
\* else None
ConsumeDisplayToggle(flag) ==
    IF flag THEN << controller_display_enabled >> ELSE << >>

\* if display_toggle is not None: display_enabled = display_toggle
DisplayEnabledAfter(enabled, toggle) ==
    IF toggle = << >> THEN enabled ELSE toggle[1]

\* one ButtonController.update(t): button 1, button 2, then the combination.
\* A long hold of button 1 that takes effect resets the microcontroller: the
\* call does not return and the program starts again.
\* Two polls may fall in the same half second, which is how a press shorter
\* than the hold threshold is seen.
ButtonPoll ==
    \E dt \in 0..MaxPollGap, raw1 \in BOOLEAN, raw2 \in BOOLEAN :
        LET t == poll_now + dt
            u1 == ButtonUpdate(button1, raw1, t)
            u2 == ButtonUpdate(button2, raw2, t)
            e1 == TakesEffect(_suppress_actions, Named(1, u1.invoked))
            e2 == TakesEffect(_suppress_actions, Named(2, u2.invoked))
            reset == e1 = << << 1, "long_hold" >> >>
        IN  /\ t <= MaxPollTime
            /\ poll_now' = t
            /\ was_suppressed' = _suppress_actions
            /\ PinsRead(raw1, raw2, t)
            /\ IF reset
               THEN /\ button1' = NewButton
                    /\ button2' = NewButton
                    /\ _combo_start' = Nothing
                    /\ _combo_fired' = FALSE
                    /\ _suppress_actions' = FALSE
                    /\ next_widget_requested' = FALSE
                    /\ widget_event' = None
                    /\ display_toggle_requested' = FALSE
                    /\ display_toggle' = << >>
                    /\ main_display_enabled' = TRUE
                    /\ delivered' = e1
                    /\ swallowed' = << >>
               ELSE /\ button1' = u1.b
                    /\ button2' = u2.b
                    /\ ComboDetect(u1.b, u2.b, t)
                    /\ widget_event' =
                           IF e1 = << >> THEN widget_event ELSE e1[1][2]
                    /\ next_widget_requested' =
                           \/ next_widget_requested
                           \/ e2 = << << 2, "click" >> >>
                    /\ display_toggle_requested' =
                           ToggleRequested(display_toggle_requested, e1 \o e2)
                    /\ UNCHANGED << display_toggle, main_display_enabled >>
                    /\ delivered' = e1 \o e2
                    /\ swallowed' =
                           IF _suppress_actions
                           THEN Named(1, u1.invoked) \o Named(2, u2.invoked)
                           ELSE << >>
            /\ UNCHANGED buttonRest

\* the main loop takes what the buttons asked for:
\* consume_next_widget_requested(), consume_display_toggle() and
\* consume_widget_event()
ButtonConsume ==
    /\ next_widget_requested \/ widget_event # None
                             \/ display_toggle_requested
    /\ next_widget_requested' = FALSE
    /\ widget_event' = None
    /\ display_toggle' = ConsumeDisplayToggle(display_toggle_requested)
    /\ display_toggle_requested' = FALSE
    /\ main_display_enabled' = DisplayEnabledAfter(main_display_enabled,
                                                  display_toggle')
    /\ UNCHANGED << buttonVars, buttonRest >>

ButtonNext ==
    \/ ButtonPoll
    \/ ButtonConsume

SpecButtons == ButtonInit /\ [][ButtonNext]_vars

\* C22 as stated: once both buttons have been held together for the combo
\* threshold, no click, hold or long hold of either button is delivered until
\* both have been released
C22_Original == reached => delivered = << >>

\* C22 as the code has it: a poll that begins with the actions suppressed
\* delivers no click, hold or long hold, whichever button is released first;
\* the suppression, set by the poll that finds both buttons pressed for the
\* combo threshold, ends only with a poll that finds both released, and a poll
\* that begins without it delivers every action its buttons report
C22_SuppressedUntilBothReleased ==
    /\ [](was_suppressed => delivered = << >>)
    /\ [](~was_suppressed => swallowed = << >>)
    /\ []((~button1._pressed /\ ~button2._pressed) => ~_suppress_actions)
    /\ [][(_suppress_actions /\ ~_suppress_actions')
            => (~button1'._pressed /\ ~button2'._pressed)]_vars
    /\ [][(/\ ~_suppress_actions
           /\ _suppress_actions')
            => /\ button1'._pressed /\ button2'._pressed
               /\ poll_now' - _combo_start >= combo_hold_seconds]_vars

\* button 1 was released first, after more than the hold threshold, while
\* button 2 is still held: its hold was swallowed
C22_Witness ==
    /\ was_suppressed
    /\ _suppress_actions
    /\ swallowed = << << 1, "hold" >> >>
    /\ button2._pressed
    /\ ~button1._pressed

-----------------------------------------------------------------------------
(* What render() returns.  The main loop calls render() of the active       *)
(* widget once per iteration; between two calls the callbacks of the        *)
(* widget's requests, its activation and the buttons change its fields.     *)

MaxRenderTime == 482  \* the clock stops here: two minutes and two intervals
MaxIntervals == 2     \* the clock is read this many intervals into a minute

interval == 1     \* LoadingAnimator.interval: 0.25 s
Minute == 240     \* 60 s

WidgetKinds == {"train", "spotify", "announcements"}

RenderInit ==
    /\ QueueInit
    /\ RenderOthersOff
    /\ \E kind \in WidgetKinds, status \in {"idle", "config"} :
           /\ status = "config" => kind = "spotify"
           /\ widget = [NewWidget(kind) EXCEPT !._status = status]
    /\ rnow = 1
    /\ frame = "nothing"
    /\ dirty_before = FALSE
    /\ minute_changed = FALSE
    /\ interval_elapsed = FALSE

renderRest == << queueState, renderOthers >>

\* LoadingAnimator.next_group(): the animation is due
LoadingDue(last, t) == ~(t - last < interval /\ last > 0)

\* TrainTimeWidget.render() keeps the previous frame
RenderSkips_Never(dirty, bucket, last_minute) == FALSE

RenderSkips(dirty, bucket, last_minute) == ~dirty /\ bucket = last_minute

\* int(now_utc // 60)
MinuteBucket(t) == t \div Minute

\* TrainTimeWidget.render(): the widget afterwards and what it returned
TrainTimeRender(w, t) ==
    IF w.error_state
    THEN [w |-> w, frame |-> "error"]
    ELSE IF ~w.data_ready
    THEN IF LoadingDue(w.last, t)
         THEN [w |-> [w EXCEPT !.last = t], frame |-> "loading"]
         ELSE [w |-> w, frame |-> "nothing"]
    ELSE IF RenderSkips(w._dirty, MinuteBucket(t), w._last_render_minute)
    THEN [w |-> w, frame |-> "nothing"]
    ELSE [w |-> [w EXCEPT !._last_render_minute = MinuteBucket(t),
                          !._dirty = FALSE],
          frame |-> "display"]

\* SpotifyNowPlayingWidget.render()
SpotifyRender(w, t) ==
    IF w._status = "loading" /\ ~w._art_tilegrid
    THEN IF LoadingDue(w.last, t)
         THEN [w |-> [w EXCEPT !.last = t], frame |-> "loading"]
         ELSE [w |-> w, frame |-> "nothing"]
    ELSE IF ~w._group \/ w._dirty
    THEN [w |-> [w EXCEPT !._group = TRUE, !._dirty = FALSE],
          frame |-> "display"]
    ELSE [w |-> w, frame |-> "nothing"]

\* AnnouncementsWidget.render()
AnnouncementsRender(w, t) ==
    IF w._image_error
    THEN [w |-> w, frame |-> "error"]
    ELSE IF ~w._group \/ w._dirty
    THEN [w |-> [w EXCEPT !._group = TRUE, !._dirty = FALSE],
          frame |-> "display"]
    ELSE [w |-> w, frame |-> "nothing"]

WidgetRender(w, t) ==
    CASE w.kind = "train" -> TrainTimeRender(w, t)
      [] w.kind = "spotify" -> SpotifyRender(w, t)
      [] w.kind = "announcements" -> AnnouncementsRender(w, t)

\* the main loop calls render() of the widget
RenderCall ==
    LET r == WidgetRender(widget, rnow)
    IN  /\ widget' = r.w
        /\ frame' = r.frame
        /\ dirty_before' = widget._dirty
        /\ minute_changed' =
               /\ widget.kind = "train"
               /\ MinuteBucket(rnow) # widget._last_render_minute
        /\ interval_elapsed' = LoadingDue(widget.last, rnow)
        /\ UNCHANGED << rnow, renderRest >>

RenderAdvance ==
    \E dt \in {interval, Minute} :
        /\ rnow + dt <= MaxRenderTime
        /\ dt = interval => (rnow + dt) % Minute <= MaxIntervals
        /\ rnow' = rnow + dt
        /\ UNCHANGED << widget, frame, dirty_before, minute_changed,
                        interval_elapsed, renderRest >>

\* _on_train_update, _on_train_error, _on_weather_update, _on_weather_error:
\* a response of a data source is handled, with or without an error
TrainCallback ==
    /\ widget.kind = "train"
    /\ \E error \in BOOLEAN :
           widget' = [widget EXCEPT !.data_ready = TRUE, !._dirty = TRUE,
                                    !.error_state = error]
    /\ UNCHANGED << rnow, frame, dirty_before, minute_changed,
                    interval_elapsed, renderRest >>

\* TrainTimeWidget.on_activate(): the loading animation is shown again
TrainOnActivate ==
    /\ widget.kind = "train"
    /\ widget' = [widget EXCEPT !.data_ready = FALSE, !._dirty = TRUE]
    /\ UNCHANGED << rnow, frame, dirty_before, minute_changed,
                    interval_elapsed, renderRest >>

\* force_refresh() of any widget, and the train widget's handle_button()
MarkDirty ==
    /\ widget' = [widget EXCEPT !._dirty = TRUE]
    /\ UNCHANGED << rnow, frame, dirty_before, minute_changed,
                    interval_elapsed, renderRest >>

\* SpotifyNowPlayingWidget._request_refresh() and _download_art() start a
\* request; _download_art() closes the art that is open
SpotifyLoading ==
    /\ widget.kind = "spotify"
    /\ widget._status # "config"
    /\ \E art \in {widget._art_tilegrid, FALSE} :
           widget' = [widget EXCEPT !._status = "loading", !._dirty = TRUE,
                                    !._art_tilegrid = art]
    /\ UNCHANGED << rnow, frame, dirty_before, minute_changed,
                    interval_elapsed, renderRest >>

\* the statuses the callbacks of the two requests leave
SpotifyStatuses == {"ok", "no_music", "error", "auth_error", "read_only"}

\* _on_update and _on_error of the now-playing request, _on_success and
\* _on_error of the art request
SpotifyCallback ==
    /\ widget.kind = "spotify"
    /\ widget._status # "config"
    /\ \E st \in SpotifyStatuses, art \in BOOLEAN :
           /\ art => st = "ok"
           /\ widget' = [widget EXCEPT !._status = st, !._dirty = TRUE,
                                       !._art_tilegrid = art]
    /\ UNCHANGED << rnow, frame, dirty_before, minute_changed,
                    interval_elapsed, renderRest >>

\* AnnouncementsWidget._set_current(): another announcement is shown, and its
\* image loads or does not
SetCurrent ==
    /\ widget.kind = "announcements"
    /\ \E image_error \in BOOLEAN :
           widget' = [widget EXCEPT !._dirty = TRUE,
                                    !._image_error = image_error]
    /\ UNCHANGED << rnow, frame, dirty_before, minute_changed,
                    interval_elapsed, renderRest >>

RenderNext ==
    \/ RenderCall
    \/ RenderAdvance
    \/ TrainCallback
    \/ TrainOnActivate
    \/ MarkDirty
    \/ SpotifyLoading
    \/ SpotifyCallback
    \/ SetCurrent

SpecRender == RenderInit /\ [][RenderNext]_vars

-----------------------------------------------------------------------------
(* The image proxy client.  request_bmp() queues a GET; the request queue   *)
(* later calls _handle_success with the response or _handle_error with the  *)
(* exception of the transport.                                              *)

MaxImageRequests == 3   \* the requests of one behaviour

\* the classes of the exceptions the transport raises
TransportErrors == {"OutOfRetries", "MemoryError", "OSError", "TimeoutError",
                    "RuntimeError"}

\* "OutOfRetries" in name or "MemoryError" in name
ShouldSocketFallback_Never(name) == FALSE

ShouldSocketFallback(name) == name \in {"OutOfRetries", "MemoryError"}

\* what _fetch_via_socket() does: it returns the status of the status line
\* (0 when it cannot be read) or raises
SocketOutcomes ==
    { [raised |-> None, status |-> st] : st \in {200, 404, 0} }
    \cup { [raised |-> e, status |-> 0] :
               e \in {"socketpool unavailable",
                      "socket response missing headers", "OSError"} }

\* the error the fallback ends with, if any: what _fetch_via_socket() raised,
\* or the RuntimeError for a status of 400 and more, or 0
FallbackError(outcome) ==
    IF outcome.raised # None THEN outcome.raised
    ELSE IF outcome.status >= 400 \/ outcome.status = 0
    THEN "Image proxy error"
    ELSE None

\* on_success(self.output_path, status) or on_error(exc)
Callback(err, status) ==
    IF err = None THEN [name |-> "on_success", status |-> status, exc |-> None]
    ELSE [name |-> "on_error", status |-> 0, exc |-> err]

ImageInit ==
    /\ QueueInit
    /\ ImageOthersOff
    /\ ImageOff

imageRest == << queueState, imageOthers >>

\* request_bmp(): nothing while a request is pending; otherwise the GET is
\* queued, or the queue refuses it
RequestBmp ==
    /\ ~_pending
    /\ Len(image_log) < MaxImageRequests
    /\ \E started \in BOOLEAN :
           /\ _pending' = started
           /\ image_last_error' =
                  IF ~started /\ image_last_error = None
                  THEN "Image proxy request skipped" ELSE image_last_error
    /\ UNCHANGED << image_log, imageRest >>

\* _handle_success: the response is written to the file, unless its status is
\* 400 or more, it has no body or the file cannot be written
ImageHandleSuccess ==
    /\ _pending
    /\ \E status \in {200, 404}, body \in BOOLEAN, written \in BOOLEAN :
           LET err == IF status >= 400 THEN "Image proxy error"
                      ELSE IF ~body THEN "Empty image response"
                      ELSE IF ~written THEN "OSError"
                      ELSE None
           IN  /\ image_last_error' = err
               /\ image_log' = Append(image_log,
                      [exc |-> None, fetched |-> << >>,
                       callbacks |-> << Callback(err, status) >>])
    /\ _pending' = FALSE
    /\ UNCHANGED imageRest

\* _handle_error: the transport failed.  An error that calls for the fallback
\* is followed by one _fetch_via_socket()
ImageHandleError ==
    /\ _pending
    /\ \E e \in TransportErrors, outcome \in SocketOutcomes :
           LET fallback == ShouldSocketFallback(e)
               err == IF fallback THEN FallbackError(outcome) ELSE e
           IN  /\ ~fallback => outcome = [raised |-> None, status |-> 200]
               /\ image_last_error' = err
               /\ image_log' = Append(image_log,
                      [exc |-> e,
                       fetched |-> IF fallback THEN << outcome >> ELSE << >>,
                       callbacks |-> << Callback(err, outcome.status) >>])
    /\ _pending' = FALSE
    /\ UNCHANGED imageRest

ImageNext ==
    \/ RequestBmp
    \/ ImageHandleSuccess
    \/ ImageHandleError

SpecImage == ImageInit /\ [][ImageNext]_vars

\* the requests that failed with a transport error classified as resource
\* exhaustion
Exhausted == {k \in 1..Len(image_log) :
                 image_log[k].exc \in {"OutOfRetries", "MemoryError"}}

\* C24: a request that fails with a resource-exhaustion transport error is
\* followed by exactly one raw-socket fetch; if the fetch succeeds the success
\* callback fires, if it fails the error callback fires with the error of the
\* fetch, and nothing else is invoked
C24_FallbackOnce ==
    \A k \in Exhausted :
        LET r == image_log[k]
        IN  /\ Len(r.fetched) = 1
            /\ Len(r.callbacks) = 1
            /\ r.callbacks[1].name =
                   IF r.fetched[1].raised = None /\ r.fetched[1].status \in 1..399
                   THEN "on_success" ELSE "on_error"
            /\ r.callbacks[1].name = "on_success"
                   => r.callbacks[1].status = r.fetched[1].status
            /\ r.callbacks[1].name = "on_error"
                   => r.callbacks[1].exc = FallbackError(r.fetched[1])

\* one request ran out of retries and its fallback fetched the image, another
\* ran out of memory and its fallback raised
C24_Witness ==
    /\ \E k \in Exhausted :
           /\ image_log[k].exc = "OutOfRetries"
           /\ image_log[k].callbacks[1].name = "on_success"
    /\ \E k \in Exhausted :
           /\ image_log[k].exc = "MemoryError"
           /\ image_log[k].callbacks[1].exc = "socket response missing headers"

-----------------------------------------------------------------------------
(* The errors of the Spotify client, under SpecSpotify.                     *)

ErrorStages == {"config", "token", "now_playing", "parse", "request"}

\* the stage each error belongs to: missing credentials, config; a failed
\* token refresh, a missing token or a status of 401, token; another status of
\* 400 and more, now_playing; an exception of the payload, parse; a failure of
\* the transport, request
StageOfError(e) ==
    CASE e = "Spotify credentials missing" -> "config"
      [] e \in {"no token response", "Spotify token error",
                "Spotify token missing in response",
                "token response does not parse",
                "Spotify access token missing",
                "Spotify access token expired"} -> "token"
      [] e = "Spotify API error" -> "now_playing"
      [] e = "payload raises" -> "parse"
      [] e = "no response" -> "request"
      [] OTHER -> "unknown"

\* C25: last_error is set exactly when last_error_stage is one of config,
\* token, now_playing, parse and request, the stage is the one the error
\* belongs to, and the stage is empty exactly when there is no error
C25_StageTagged ==
    /\ (last_error # None) <=> (last_error_stage \in ErrorStages)
    /\ (last_error = None) <=> (last_error_stage = "")
    /\ last_error # None => last_error_stage = StageOfError(last_error)

\* a payload raised while it was applied
C25_Witness ==
    /\ last_error = "payload raises"
    /\ last_error_stage = "parse"
    /\ pc = "callback"

-----------------------------------------------------------------------------
(* The access token and the now-playing request, under SpecSpotify.         *)

\* the calls made with a token and before its deadline, and the others
CallsWithToken == {c \in 1..Len(sp_calls) :
                      sp_calls[c].token /\ sp_calls[c].early}

CallsWithoutToken == {c \in 1..Len(sp_calls) :
                         ~(sp_calls[c].token /\ sp_calls[c].early)}

\* the callers whose now-playing request is waiting or executing
NowPlayingCallers ==
    {_queue[k].caller : k \in {i \in 1..Len(_queue) :
                                   _queue[i].key = NowPlayingKey}}
    \cup (IF req # NoReq /\ req.key = NowPlayingKey THEN {req.caller} ELSE {})

\* C26 as stated: a call made with the token present and the clock before the
\* deadline enqueues the now-playing GET
C26_Original ==
    \A c \in CallsWithToken : sp_calls[c].did = "get"

\* C26 as the code has it: a call made with the token present and the clock
\* before the deadline hands the now-playing GET to the queue, which takes it
\* unless one is waiting or executing, and starts no token refresh; a call
\* made without a token or past the deadline hands no GET to the queue, and
\* the GET of such a caller is enqueued only by the refresh that succeeded
C26_TokenBeforeNowPlaying ==
    /\ \A c \in CallsWithToken : sp_calls[c].did \in {"get", "get_rejected"}
    /\ \A c \in CallsWithoutToken :
           sp_calls[c].did \in {"config", "post", "post_rejected", "coalesced"}
    /\ \A c \in NowPlayingCallers \cap CallsWithoutToken : c \in continued
    /\ [][\A c \in NowPlayingCallers' \ NowPlayingCallers :
              \/ c \in CallsWithToken'
              \/ /\ c \in continued' \ continued
                 /\ access_token' # None
                 /\ \E expires_in \in ExpiresIn :
                        _token_expires_at' =
                            now + Max(0, expires_in - RefreshEarly)]_vars

\* one call found the token valid and enqueued the GET at once; another was
\* made past the deadline and its GET was enqueued by the refresh
C26_Witness ==
    /\ \E c \in CallsWithToken : sp_calls[c].did = "get"
    /\ \E c \in CallsWithoutToken :
           /\ sp_calls[c].token
           /\ c \in continued
           /\ c \in NowPlayingCallers

-----------------------------------------------------------------------------
(* What the transit and weather sources keep of a response.  A response is  *)
(* described by what the handler meets in it, in the order it looks.        *)

MaxSourceTime == 1   \* the clock stops here

\* a StopMonitoring response: whether it is JSON, the provider error it
\* carries, its ResponseTimestamp, whether ServiceDelivery is an object and
\* has deliveries, whether every visit is an object, and the routes.  What
\* the handler does not get to look at is left out.
StopPayloads ==
    { d \in [json : BOOLEAN,
             message : {NoMessage,
                        [stop |-> TRUE, code |-> TRUE, stopcode |-> FALSE,
                         text |-> TRUE]},
             timestamp : {Nothing, 100},
             delivery : {"object", "empty", "null"},
             visits : {"objects", "null"},
             routes : {<< >>, << "N" >>}] :
        /\ (~d.json \/ d.message.text)
               => d.timestamp = Nothing /\ d.delivery = "object"
        /\ d.delivery # "object" => d.visits = "objects"
        /\ (d.visits # "objects" \/ ~d.json \/ d.message.text)
               => d.routes = << >> }

\* a forecast response: whether it is JSON, whether utc_offset_seconds is a
\* number, and whether current and daily are objects
WeatherPayloads ==
    { d \in [json : BOOLEAN,
             offset : {0, 3600, Nothing},
             current : {"object", "null"},
             time : {Nothing, 100},
             temperature : {Nothing, 20},
             daily : {"object", "null"}] :
        /\ ~d.json => d.offset = 0
        /\ (~d.json \/ d.offset = Nothing) => d.current = "object"
        /\ (~d.json \/ d.offset = Nothing \/ d.current = "null")
               => /\ d.time = Nothing
                  /\ d.temperature = Nothing
                  /\ d.daily = "object" }

SourceInit ==
    /\ QueueInit
    /\ SourceOthersOff
    /\ SourcesOff

sourceRest == << queueState, sourceOthers >>

\* MuniStop._apply_payload(data) at t: the MuniStop afterwards and whether an
\* exception left the method
StopApplyPayload(st, data, t) ==
    IF data.message.text /\ ErrorMentionsStopCode(data.message)
    THEN [st |-> [st EXCEPT !.fatal_error_lines = BadStopCode,
                            !.trains = << >>],
          raised |-> FALSE]
    ELSE LET anchored == [st EXCEPT !.fatal_error_lines = NoLines,
                                    !.response_epoch = data.timestamp,
                                    !._last_update_monotonic = t]
         IN  IF data.delivery = "null"
             THEN [st |-> anchored, raised |-> TRUE]
             ELSE IF data.delivery = "empty"
             THEN [st |-> [anchored EXCEPT !.trains = << >>],
                   raised |-> FALSE]
             ELSE IF data.visits = "null"
             THEN [st |-> anchored, raised |-> TRUE]
             ELSE [st |-> [anchored EXCEPT !.trains = data.routes],
                   raised |-> FALSE]

\* WeatherClient._apply_payload(payload)
WeatherApplyPayload(w, payload) ==
    IF payload.offset = Nothing
    THEN [w |-> w, raised |-> TRUE]
    ELSE LET offset == [w EXCEPT !.utc_offset_seconds = payload.offset]
         IN  IF payload.current = "null"
             THEN [w |-> offset, raised |-> TRUE]
             ELSE LET current ==
                          [offset EXCEPT !.current_epoch = payload.time,
                                         !.current_temperature =
                                             payload.temperature]
                  IN  [w |-> current, raised |-> payload.daily = "null"]

\* the payload fields of the two sources
StoredFields(st, w) ==
    << st.trains, st.response_epoch, st._last_update_monotonic,
       w.current_temperature, w.current_epoch, w._last_update_monotonic,
       w.utc_offset_seconds >>

\* the handlers read the clock
SourceAdvance ==
    /\ src_now < MaxSourceTime
    /\ src_now' = src_now + 1
    /\ UNCHANGED << stop, weather, stored_before, ended, sourceRest >>

\* MuniStop.request_refresh._handle_success(text, ...)
StopHandleSuccess ==
    \E data \in StopPayloads :
        LET a == IF data.json THEN StopApplyPayload(stop, data, src_now)
                 ELSE [st |-> stop, raised |-> TRUE]
        IN  /\ stop' = [a.st EXCEPT !.last_error =
                            IF a.raised THEN "exception" ELSE None]
            /\ ended' = IF a.raised THEN "error" ELSE "update"
            /\ stored_before' = StoredFields(stop, weather)
            /\ UNCHANGED << weather, src_now, sourceRest >>

\* MuniStop.request_refresh._handle_error(exc)
StopHandleError ==
    /\ stop' = [stop EXCEPT !.last_error = "no response"]
    /\ ended' = "error"
    /\ stored_before' = StoredFields(stop, weather)
    /\ UNCHANGED << weather, src_now, sourceRest >>

\* WeatherClient.request_refresh._handle_success(text, ...)
WeatherHandleSuccess ==
    \E payload \in WeatherPayloads :
        LET a == IF payload.json THEN WeatherApplyPayload(weather, payload)
                 ELSE [w |-> weather, raised |-> TRUE]
        IN  /\ weather' =
                   IF a.raised
                   THEN [a.w EXCEPT !.last_error = "exception"]
                   ELSE [a.w EXCEPT !.last_error = None,
                                    !._last_update_monotonic = src_now]
            /\ ended' = IF a.raised THEN "error" ELSE "update"
            /\ stored_before' = StoredFields(stop, weather)
            /\ UNCHANGED << stop, src_now, sourceRest >>

\* WeatherClient.request_refresh._handle_error(exc)
WeatherHandleError ==
    /\ weather' = [weather EXCEPT !.last_error = "no response"]
    /\ ended' = "error"
    /\ stored_before' = StoredFields(stop, weather)
    /\ UNCHANGED << stop, src_now, sourceRest >>

SourceNext ==
    \/ SourceAdvance
    \/ StopHandleSuccess
    \/ StopHandleError
    \/ WeatherHandleSuccess
    \/ WeatherHandleError

SpecSources == SourceInit /\ [][SourceNext]_vars

\* C27: a refresh that ends in an error leaves the payload fields of the
\* transit and weather sources (arrivals, response epoch and its anchor,
\* temperature, offset) as they were
C27_ErrorKeepsPayload ==
    ended = "error"
        => StoredFields(stop, weather) = stored_before

-----------------------------------------------------------------------------
(* Cron matching.  A schedule is what CronSchedule.__init__ splits the      *)
(* expression into: five fields, each a comma-separated list of parts.      *)

Value(a) == Part("value", a, 0, Nothing)
FromTo(a, b) == Part("range", a, b, Nothing)
Every(part, step) == [part EXCEPT !.step = step]

\* range(start, limit, step) of Python, step > 0
PyRange(start, limit, step) ==
    { v \in start..(limit - 1) : (v - start) % step = 0 }

\* a step of a part is ignored
StepOf_One(part) == 1

\* the step of a "*" or "a-b" part: 1 when there is none or it is not positive
StepOf(part) == IF part.step = Nothing \/ part.step <= 0 THEN 1 ELSE part.step

\* _expand_part(part, min_value, max_value): the values, or None
ExpandPart(part, min_value, max_value) ==
    CASE part.base = "*" ->
             [none |-> FALSE,
              values |-> PyRange(min_value, max_value + 1, StepOf(part))]
      [] part.base = "range" ->
             [none |-> FALSE,
              values |-> PyRange(part.a, part.b + 1, StepOf(part))]
      [] part.base = "value" ->
             [none |-> FALSE,
              values |-> IF part.step # Nothing /\ part.step > 1
                         THEN PyRange(part.a, max_value + 1, part.step)
                         ELSE {part.a}]
      [] OTHER -> [none |-> TRUE, values |-> {}]

\* _parse_field(field, min_value, max_value): the set of the values the field
\* admits, or None (any) for "*", for a field with a part that does not
\* expand, and for a field that expands to nothing
ParseField(field, min_value, max_value) ==
    LET parts == {ExpandPart(field[k], min_value, max_value) :
                      k \in 1..Len(field)}
        values == UNION {e.values : e \in parts}
    IN  IF field = << Star >> \/ (\E e \in parts : e.none) \/ values = {}
        THEN [any |-> TRUE, values |-> {}]
        ELSE [any |-> FALSE, values |-> values]

\* 7 is left as it is
Sunday_AsParsed(dow) == dow

\* CronSchedule.__init__: 0 and 7 are both Sunday
Sunday(dow) ==
    IF ~dow.any /\ 7 \in dow.values
    THEN [dow EXCEPT !.values = @ \cup {0}]
    ELSE dow

\* CronSchedule.__init__: the five parsed fields
CronSchedule(expr) ==
    [_minute |-> ParseField(expr[1], 0, 59),
     _hour |-> ParseField(expr[2], 0, 23),
     _dom |-> ParseField(expr[3], 1, 31),
     _month |-> ParseField(expr[4], 1, 12),
     _dow |-> Sunday(ParseField(expr[5], 0, 7))]

\* _match_field(values, value)
MatchField(values, value) == values.any \/ value \in values.values

\* CronSchedule.matches(tm): cron counts the days from Sunday
Matches(schedule, t) ==
    LET dow == (t.tm_wday + 1) % 7
    IN  /\ MatchField(schedule._minute, t.tm_min)
        /\ MatchField(schedule._hour, t.tm_hour)
        /\ MatchField(schedule._dom, t.tm_mday)
        /\ MatchField(schedule._month, t.tm_mon)
        /\ MatchField(schedule._dow, dow)

\* the day-of-week fields tried: one or two parts, each a day, a range of
\* days or a day with a step
DowDays == {0, 3, 7}

DowParts ==
    {Value(d) : d \in DowDays}
    \cup {FromTo(a, b) : a \in DowDays, b \in DowDays}
    \cup {Every(Value(d), 2) : d \in DowDays}

DowFields ==
    {<< p >> : p \in DowParts \cup {Star}}
    \cup {<< Value(a), Value(b) >> : a \in DowDays, b \in DowDays}

\* "*/15 * * * *"
QuarterHours == [EveryMinute EXCEPT ![1] = << Every(Star, 15) >>]

\* "0 9-17 * * 1-5"
OfficeHours == [EveryMinute EXCEPT ![1] = << Value(0) >>,
                                   ![2] = << FromTo(9, 17) >>,
                                   ![5] = << FromTo(1, 5) >>]

\* the schedules tried: the two above, "0,30 8 31 12 *", a schedule with a
\* field that is not a number ("x * * * *"), and "* * * * dow" for every
\* day-of-week field above
Schedules ==
    {QuarterHours, OfficeHours,
     << << Value(0), Value(30) >>, << Value(8) >>, << Value(31) >>,
        << Value(12) >>, << Star >> >>,
     [EveryMinute EXCEPT ![1] = << Part("x", 0, 0, Nothing) >>]}
    \cup {[EveryMinute EXCEPT ![5] = f] : f \in DowFields}

\* the times tried: every minute of four hours of the day, on two days of
\* December, on every day of the week
Times ==
    [tm_min : 0..59, tm_hour : {8, 9, 17, 18}, tm_mday : {1, 31},
     tm_mon : {12}, tm_wday : 0..6]

CronInit ==
    /\ QueueInit
    /\ CronOthersOff
    /\ lib_ok
    /\ cron_expr \in Schedules
    /\ tm \in Times
    /\ matched = << >>

cronRest == << queueState, cronOthers >>

\* schedule.matches(tm)
CronMatches ==
    /\ matched' = << Matches(CronSchedule(cron_expr), tm) >>
    /\ UNCHANGED << cron_expr, tm, cronRest >>

CronNext == CronMatches

SpecCron == CronInit /\ [][CronNext]_vars

\* the values a field admits, wildcard or not
Admits(field, min_value, max_value, value) ==
    LET parsed == ParseField(field, min_value, max_value)
    IN  parsed.any \/ value \in parsed.values

\* the day of the week as cron counts it, Sunday being 0 and also 7
CronDays(t) == IF t.tm_wday = 6 THEN {0, 7} ELSE {t.tm_wday + 1}

\* C28: a time matches a schedule exactly when each of its five values lies in
\* the expanded set of its field; "*/15 * * * *" matches exactly the minutes
\* 0, 15, 30 and 45, and "0 9-17 * * 1-5" exactly minute 0 of the hours 9 to
\* 17 from Monday to Friday
C28_CronMatching ==
    matched # << >> =>
        /\ matched[1] <=>
               /\ Admits(cron_expr[1], 0, 59, tm.tm_min)
               /\ Admits(cron_expr[2], 0, 23, tm.tm_hour)
               /\ Admits(cron_expr[3], 1, 31, tm.tm_mday)
               /\ Admits(cron_expr[4], 1, 12, tm.tm_mon)
               /\ \E d \in CronDays(tm) : Admits(cron_expr[5], 0, 7, d)
        /\ cron_expr = QuarterHours
               => (matched[1] <=> tm.tm_min \in {0, 15, 30, 45})
        /\ cron_expr = OfficeHours
               => (matched[1] <=> /\ tm.tm_min = 0
                               /\ tm.tm_hour \in 9..17
                               /\ tm.tm_wday \in 0..4)

\* "0 9-17 * * 1-5" matched 17:00 of a Friday
C28_Witness ==
    /\ cron_expr = OfficeHours
    /\ matched = << TRUE >>
    /\ tm.tm_hour = 17
    /\ tm.tm_wday = 4

\* a part with 7 for 0 and 0 for 7, and a field of such parts
Swapped(v) == IF v = 7 THEN 0 ELSE IF v = 0 THEN 7 ELSE v

SwappedPart(part) ==
    CASE part.base = "value" -> [part EXCEPT !.a = Swapped(@)]
      [] part.base = "range" -> [part EXCEPT !.a = Swapped(@), !.b = Swapped(@)]
      [] OTHER -> part

SwappedDays(expr) ==
    [expr EXCEPT ![5] = [k \in 1..Len(expr[5]) |-> SwappedPart(expr[5][k])]]

\* the day-of-week field is a list of plain days
PlainDays(expr) ==
    \A k \in 1..Len(expr[5]) :
        expr[5][k].base = "value" /\ expr[5][k].step = Nothing

\* C29 as stated: a schedule with 7 for 0 or 0 for 7 in its day-of-week field
\* matches the same times
C29_Original ==
    matched # << >>
        => matched[1] = Matches(CronSchedule(SwappedDays(cron_expr)), tm)

\* C29 as the code has it: where the day-of-week field is a list of plain
\* days, 7 for 0 or 0 for 7 gives a schedule that matches the same times, and
\* the fields "0" and "7" match Sunday only
C29_SundayIsZeroOrSeven ==
    (matched # << >> /\ PlainDays(cron_expr)) =>
        /\ matched[1] = Matches(CronSchedule(SwappedDays(cron_expr)), tm)
        /\ cron_expr[5] \in {<< Value(0) >>, << Value(7) >>}
               => (matched[1] <=> tm.tm_wday = 6)

\* "* * * * 7" matched a Sunday
C29_Witness ==
    /\ cron_expr = [EveryMinute EXCEPT ![5] = << Value(7) >>]
    /\ matched = << TRUE >>
    /\ tm.tm_wday = 6

-----------------------------------------------------------------------------
(* The announcements widget.  update() is called once per iteration of the  *)
(* main loop; it reads time.time(), which nothing in the program sets and   *)
(* so never goes back.                                                      *)

MaxWallTime == 200   \* time.time() stops here
MaxUpdateGap == 2    \* the longest time between two update() calls, in
                     \* thirds of a minute

Fallback == "No messages"   \* the label of AnnouncementsWidget._fallback

\* the entries of the configuration: none, one for the odd minutes
\* ("1-59/2 * * * *"), one for minute 1 and one for every minute, one for
\* Sundays
Configurations ==
    { << >>,
      << [label |-> "odd",
          cron |-> [EveryMinute EXCEPT ![1] = << Every(FromTo(1, 59), 2) >>]] >>,
      << [label |-> "first",
          cron |-> [EveryMinute EXCEPT ![1] = << Value(1) >>]],
         [label |-> "always", cron |-> EveryMinute] >>,
      << [label |-> "sunday",
          cron |-> [EveryMinute EXCEPT ![5] = << Value(7) >>]] >> }

AnnouncementInit ==
    /\ QueueInit
    /\ AnnouncementOthersOff
    /\ lib_ok
    /\ _announcements \in Configurations
    /\ active_entries = << >>
    /\ _current = None
    /\ _current_index = 0
    /\ _last_minute_key = Nothing
    /\ wall = 0
    /\ evaluated = << >>
    /\ updated = {}

announcementRest == << queueState, announcementOthers >>

\* time.localtime(now_epoch), the epoch beginning on a Saturday (2000-01-01)
LocalTime(now_epoch) ==
    [tm_min |-> (now_epoch \div 60) % 60,
     tm_hour |-> (now_epoch \div 3600) % 24,
     tm_mday |-> 1 + (now_epoch \div 86400),
     tm_mon |-> 1,
     tm_wday |-> (5 + (now_epoch \div 86400)) % 7]

\* the key is the second
MinuteKey_Second(now_epoch) == now_epoch

\* int(now_epoch // 60)
MinuteKey(now_epoch) == now_epoch \div 60

\* the labels of the entries whose schedule matches, in the order of the
\* configuration
RECURSIVE Matching(_, _)
Matching(entries, t) ==
    IF entries = << >> THEN << >>
    ELSE LET rest == Matching(Tail(entries), t)
         IN  IF Matches(CronSchedule(Head(entries).cron), t)
             THEN << Head(entries).label >> \o rest
             ELSE rest

\* _refresh_active(now_epoch): the active entries, the fallback if there is
\* none
RefreshActive(now_epoch) ==
    LET m == Matching(_announcements, LocalTime(now_epoch))
    IN  IF m = << >> THEN << Fallback >> ELSE m

InSeq(x, q) == \E k \in 1..Len(q) : q[k] = x

\* update(now_monotonic): the schedules are looked at when the minute is not
\* the one of the update before; then the rotation moves on if its time is up
\* (due), which it is not right after _set_current() restarted it
AnnouncementsUpdate ==
    \E due \in BOOLEAN :
        LET minute_key == MinuteKey(wall)
            refresh == minute_key # _last_minute_key
            act == IF refresh THEN RefreshActive(wall) ELSE active_entries
            reset == refresh /\ ~InSeq(_current, act)
            idx == IF reset THEN 0 ELSE _current_index
            cur == IF reset THEN act[1] ELSE _current
        IN  /\ active_entries' = act
            /\ _last_minute_key' = minute_key
            /\ evaluated' = IF refresh THEN Append(evaluated, wall \div 60)
                            ELSE evaluated
            /\ updated' = updated \cup {wall \div 60}
            /\ IF due /\ ~reset
               THEN IF act = << >>
                    THEN /\ _current' = Fallback
                         /\ _current_index' = idx
                    ELSE /\ _current_index' = (idx + 1) % Len(act)
                         /\ _current' = act[((idx + 1) % Len(act)) + 1]
               ELSE /\ _current' = cur
                    /\ _current_index' = idx
            /\ UNCHANGED << _announcements, wall, announcementRest >>

\* time.time() goes on
WallAdvance ==
    \E thirds \in 1..MaxUpdateGap :
        /\ wall + 20 * thirds <= MaxWallTime
        /\ wall' = wall + 20 * thirds
        /\ UNCHANGED << _announcements, active_entries, _current, _current_index,
                        _last_minute_key, evaluated, updated,
                        announcementRest >>

AnnouncementNext ==
    \/ AnnouncementsUpdate
    \/ WallAdvance

SpecAnnouncements == AnnouncementInit /\ [][AnnouncementNext]_vars

\* C30: the schedules are evaluated at most once in a minute, and in every
\* minute in which update() runs, at its first update(); when no entry matches
\* the active subset is the fallback alone
C30_RefreshAtMinuteBoundaries ==
    /\ [](\A i, j \in 1..Len(evaluated) : i < j => evaluated[i] < evaluated[j])
    /\ []({evaluated[k] : k \in 1..Len(evaluated)} = updated)
    /\ [][evaluated' # evaluated
            => /\ (wall \div 60) \notin updated
               /\ active_entries' = IF Matching(_announcements, LocalTime(wall)) = << >>
                            THEN << Fallback >>
                            ELSE Matching(_announcements, LocalTime(wall))]_vars
    /\ [][evaluated' = evaluated => active_entries' = active_entries]_vars

\* the widget looked at its schedules in minute 0 and in minute 2, update()
\* ran again in minute 2, and the entry for the odd minutes does not match
C30_Witness ==
    /\ evaluated = << 0, 2 >>
    /\ wall = 140
    /\ _last_minute_key = 2
    /\ Len(_announcements) = 1
    /\ _announcements[1].label = "odd"
    /\ active_entries = << Fallback >>

-----------------------------------------------------------------------------
(* The train widget's refreshes under the main loop: an iteration handles   *)
(* the button that asks for the next widget, calls update(now) of the       *)
(* active widget and lets tick() run one request.                           *)

MaxRefreshTime == 36     \* time.monotonic() stops here
MaxRefreshCalls == 3     \* request_refresh() calls in one run

TrainIndex == 1          \* widgets = [announcements, train, spotify]

RefreshInit ==
    /\ QueueInit
    /\ RefreshOthersOff
    /\ lib_ok
    /\ requested = << >>

loopNoIndex == << lpc, panel_ok, button_controller, next_widget_requested,
                  widget_event, steps, caught >>

trainNoRefresh == << trains, fatal_error_lines, stop_last_error,
                     weather_last_error, error_state, fatal_seen,
                     last_message >>

refreshRest == << _session, _ignored_log_at, _active, lib_ok, session,
                  status_code, exc, sessions, calls, executed, obs, pc, req,
                  loopNoIndex, trainNoRefresh, refreshOthers >>

\* one iteration up to the render: consume_next_widget_requested() moves to
\* the next widget and calls its force_refresh() and on_activate(now); then
\* update(now) of the active widget, which for the train widget asks both
\* sources when the deadline has passed
RefreshIteration ==
    \E next \in BOOLEAN :
        LET index == IF next THEN NextWidget(active_widget_index)
                     ELSE active_widget_index
            activated == next /\ index = TrainIndex
            \* force_refresh(): 0.0; on_activate(now): raised to now + 2.0
            deadline == IF activated THEN Max(0, now + ActivateDelay)
                        ELSE next_refresh
            refresh == index = TrainIndex /\ now >= deadline
            q1 == UrlEnqueued(_queue, _pending_keys, StopUrl)
            k1 == _pending_keys \cup {StopUrl}
        IN  /\ active_widget_index' = index
            /\ data_ready' = IF activated THEN FALSE ELSE data_ready
            /\ IF refresh
               THEN /\ transit_calls < MaxRefreshCalls
                    /\ _queue' = UrlEnqueued(q1, k1, WeatherUrl)
                    /\ _pending_keys' = k1 \cup {WeatherUrl}
                    /\ next_refresh' = now + RefreshSeconds
                    /\ transit_calls' = transit_calls + 1
                    /\ requested' = Append(requested, now)
               ELSE /\ next_refresh' = deadline
                    /\ UNCHANGED << _queue, _pending_keys, transit_calls,
                                    requested >>
            /\ UNCHANGED << now, refreshRest >>

\* http_client.tick() at the end of the iteration executes the request at
\* the head of the queue and the widget's callback sets data_ready
RefreshTick ==
    /\ _queue # << >>
    /\ _queue' = Tail(_queue)
    /\ _pending_keys' = Discarded(_pending_keys, Head(_queue))
    /\ data_ready' = TRUE
    /\ UNCHANGED << active_widget_index, next_refresh, transit_calls,
                    requested, now, refreshRest >>

\* time.monotonic() goes on, by the delay of an activation or by the refresh
\* period
RefreshAdvance ==
    \E d \in {ActivateDelay, RefreshSeconds} :
        /\ now + d <= MaxRefreshTime
        /\ now' = now + d
        /\ UNCHANGED << _queue, _pending_keys, active_widget_index,
                        next_refresh, data_ready, transit_calls, requested,
                        refreshRest >>

RefreshNext ==
    \/ RefreshIteration
    \/ RefreshTick
    \/ RefreshAdvance

SpecRefresh == RefreshInit /\ [][RefreshNext]_vars

\* C31: any two consecutive request_refresh() calls of the train widget are at
\* least max(10, refresh_seconds) seconds apart
C31_RefreshSpacing ==
    \A k \in 2..Len(requested) :
        requested[k] - requested[k - 1] >= Max(10, RefreshSeconds)

-----------------------------------------------------------------------------
(* Further claims about the request queue (specification Spec) *)

(* C32 as stated: when tick() has executed a request that carries both     *)
(* callbacks, exactly one of on_success and on_error was invoked, once.    *)
C32_Original ==
    obs.done /\ obs.req.on_success /\ obs.req.on_error =>
        obs.succ + obs.err = 1

(* C32 amended: when tick() has executed a request that carries both       *)
(* callbacks, each was invoked at most once and at least one was invoked;  *)
(* both were invoked only when on_success, or the on_progress that follows *)
(* it, raised, and then on_error received that exception.  Without a       *)
(* raising callback exactly one was invoked.                               *)
C32_OneCallbackUnlessItRaises ==
    obs.done /\ obs.req.on_success /\ obs.req.on_error =>
        /\ obs.succ <= 1 /\ obs.err <= 1
        /\ obs.succ + obs.err >= 1
        /\ obs.succ + obs.err = 2 =>
              /\ obs.on_exc \in CallbackFailures
              /\ obs.status # NoStatus
        /\ obs.caught \notin CallbackFailures => obs.succ + obs.err = 1
        /\ obs.err = 1 <=> obs.caught # NoExc

\* on_success raised and on_error was invoked with its exception
C32_Witness ==
    /\ obs.done /\ obs.succ = 1 /\ obs.err = 1
    /\ obs.on_exc = "SuccessError"

\* the keys of the waiting requests
QueuedKeys == { _queue[i].key : i \in 1..Len(_queue) }

(* C33: between two ticks the pending keys are the keys of the waiting     *)
(* requests, and no two waiting requests have the same key.                *)
C33_PendingIsQueued ==
    pc = "idle" =>
        /\ _pending_keys = QueuedKeys
        /\ \A i, j \in 1..Len(_queue) :
              _queue[i].key = _queue[j].key => i = j

\* a tick has raised out of on_error; a request enqueued from a callback of
\* that tick and one enqueued between ticks are waiting
C33_Witness ==
    /\ pc = "idle" /\ obs.done /\ obs.raised # NoExc
    /\ Len(_queue) = 2
    /\ \E i \in 1..Len(_queue) : calls[_queue[i].id].during = obs.req.id
    /\ \E i \in 1..Len(_queue) : calls[_queue[i].id].during = 0

(* C34: the key of the executing request stays pending until tick() has    *)
(* returned.  While one of its callbacks runs the key is pending, and a    *)
(* call with that key made from inside the callback returns false; the     *)
(* first call with that key after the tick has returned is accepted.       *)
C34_PendingDuringCallback ==
    /\ pc \in CallbackPcs => req.key \in _pending_keys
    /\ \A i \in 1..Len(calls) :
          calls[i].during # 0 /\ calls[i].key = calls[calls[i].during].key
              => ~calls[i].ret
    /\ \A i, j \in 1..Len(calls) :
          /\ calls[i].during # 0 /\ calls[i].key = calls[calls[i].during].key
          /\ j = i + 1 /\ calls[j].key = calls[i].key /\ calls[j].during = 0
          => calls[j].ret

\* a callback of the executing request asked for the same key again and was
\* turned away; the same call after the tick was accepted
C34_Witness ==
    \E i, j \in 1..Len(calls) :
        /\ calls[i].during # 0 /\ calls[i].key = calls[calls[i].during].key
        /\ ~calls[i].ret
        /\ j = i + 1 /\ calls[j].key = calls[i].key /\ calls[j].during = 0
        /\ calls[j].ret

-----------------------------------------------------------------------------
(* The request queue while the main loop keeps calling tick(): every        *)
(* iteration of the loop ends with http_client.tick(), and a tick() that    *)
(* has begun goes on, since the network calls have a timeout.               *)

\* the steps of tick()
Tick ==
    \/ TickEmpty \/ TickPop \/ TickOpen \/ ProgressBefore \/ Send
    \/ OnSuccess \/ InnerFinally \/ ProgressAfter \/ Except \/ OnError
    \/ Finally

\* the clock is left out: it only decides which refused calls are logged
FairNext ==
    \/ Enqueue /\ UNCHANGED ext
    \/ Tick /\ UNCHANGED ext

SpecFair == Init /\ [][FairNext]_vars /\ WF_vars(Tick /\ UNCHANGED ext)

\* tick() takes a request from the queue
Pops == pc = "idle" /\ pc' = "try"

\* every request accepted so far has been taken from the queue and executed
AllExecuted == \A i \in 1..Len(calls) : calls[i].ret => i \in Range(executed)

(* C35: no starvation.  Again and again every request accepted so far has  *)
(* been executed, so each accepted request is executed in the end; each    *)
(* tick() that finds the queue not empty executes the request at the head  *)
(* and moves every other waiting request one place forward, and nothing    *)
(* else changes the place of a waiting request, whatever is enqueued.      *)
C35_NoStarvation ==
    /\ []<>AllExecuted
    /\ [][\A i \in 1..Len(_queue) :
            IF Pops
            THEN IF i = 1 THEN executed' = Append(executed, _queue[i].id)
                 ELSE _queue'[i - 1] = _queue[i]
            ELSE Len(_queue') >= i /\ _queue'[i] = _queue[i]]_vars
    /\ [](pc = "idle" /\ _queue # << >> => ENABLED TickPop)

\* the second request was enqueued behind the first before a tick, a third was
\* enqueued while the first was executing, and the second tick executed the
\* second request
C35_Witness ==
    /\ Len(calls) = 3
    /\ calls[1].ret /\ calls[2].ret /\ calls[3].ret
    /\ calls[1].during = 0 /\ calls[2].during = 0 /\ calls[3].during = 1
    /\ executed = << 1, 2 >>
    /\ QueueIds = << 3 >>

-----------------------------------------------------------------------------
(* Further claims about the Spotify client (specification SpecSpotify) *)

(* C36: once a token refresh has completed, with whatever outcome, no      *)
(* continuation is left waiting: while no refresh is in flight the list    *)
(* _after_refresh is empty.                                                *)
C36_ContinuationsCleared ==
    ~_refresh_inflight => _after_refresh = << >>

-----------------------------------------------------------------------------
(* The Spotify widget polling its client.  The widget is the client's only  *)
(* caller, from update(), on_activate() and handle_button() in the main     *)
(* loop, never from a callback; every on_update and on_error the client     *)
(* invokes is a closure of the widget.  The main loop ends every iteration  *)
(* with http_client.tick(), and a tick() that has begun goes on.            *)

\* the widget has credentials: without them its status is "config" from the
\* start and it never asks
PollInit ==
    /\ QueueInit
    /\ PollOthersOff
    /\ PollOff

\* "if not started: self._request_pending = False"
RefreshStarted(started) == started

\* the exception the client told the widget, by the stage it was tagged with
SpotifyErrorStatus(stage) ==
    IF stage = "token" \/ stage = "config" THEN "auth_error" ELSE "error"

\* _request_refresh(), from update() when the interval has passed, from
\* on_activate() or from a click: the flag is set, the client is asked, and
\* the flag is taken back when the client did not start a request
WidgetRequestRefresh ==
    /\ pc = "idle"
    /\ ~_request_pending
    /\ _status # "config"
    /\ RequestCurrentlyPlaying
    /\ _request_pending' = RefreshStarted(sp_calls'[Len(sp_calls')].ret)
    /\ _status' = IF ~sp_calls'[Len(sp_calls')].ret /\ last_error' # None
                  THEN SpotifyErrorStatus(last_error_stage')
                  ELSE "loading"

\* _on_error(exc) of the widget
WidgetOnError ==
    /\ _request_pending' = FALSE
    /\ _status' = SpotifyErrorStatus(last_error_stage')

\* the flag is left as it is
WidgetOnUpdate_KeepsFlag ==
    /\ _request_pending' = _request_pending
    /\ _status' \in {"no_music", "ok", "loading", "error"}

\* _on_update() of the widget: nothing plays, the art is the one shown, the
\* art is asked for, or the image proxy refuses
WidgetOnUpdate ==
    /\ _request_pending' = FALSE
    /\ _status' \in {"no_music", "ok", "loading", "error"}

\* the token request fails: the client's _handle_error calls _on_error
PollTokenError == TokenError /\ WidgetOnError

\* the token response is refused: _handle_success calls _on_error
PollTokenRefused == TokenRefused /\ WidgetOnError

\* the token is granted: the continuations enqueue the now-playing request
PollTokenGranted == TokenGranted /\ UNCHANGED pollVars

\* the now-playing request is executed: _on_update or _on_error
PollNowPlayingDone ==
    /\ NowPlayingDone
    /\ IF last_error' = None THEN WidgetOnUpdate ELSE WidgetOnError

PollTickReturn == SpotifyTickReturn /\ UNCHANGED pollVars

PollAdvance == SpotifyAdvance /\ UNCHANGED pollVars

\* the steps of tick()
PollTick ==
    \/ PollTokenError
    \/ PollTokenRefused
    \/ PollTokenGranted
    \/ PollNowPlayingDone
    \/ PollTickReturn

PollNext ==
    \/ WidgetRequestRefresh
    \/ PollTokenError
    \/ PollTokenRefused
    \/ PollTokenGranted
    \/ PollNowPlayingDone
    \/ PollTickReturn
    \/ PollAdvance

SpecPoll == PollInit /\ [][PollNext]_vars /\ WF_vars(PollTick)

\* a token request or a now-playing request waits or is being executed
SpotifyQueued ==
    \/ \E i \in 1..Len(_queue) : _queue[i].key \in {TokenKey, NowPlayingKey}
    \/ req # NoReq /\ req.key \in {TokenKey, NowPlayingKey}

(* C37: whenever the widget's request-pending flag is set it is cleared in *)
(* the end, and while it is set a token request or a now-playing request   *)
(* waits in the queue or is being executed.                                *)
C37_PendingCleared ==
    /\ _request_pending ~> ~_request_pending
    /\ [](_request_pending => SpotifyQueued)

\* the widget's second poll has been answered after its first one was
\* refused a token: the flag is down again
C37_Witness ==
    /\ Len(sp_calls) >= 2
    /\ sp_calls[1].did = "post" /\ sp_calls[2].did = "post"
    /\ 2 \in continued
    /\ 1 \in notified /\ Cardinality(notified) >= 2
    /\ ~_request_pending /\ pc = "idle"

-----------------------------------------------------------------------------
(* C38 (specification SpecSpotify): between two ticks the client's         *)
(* _refresh_inflight flag is up exactly when a request with the key        *)
(* "spotify_token" is pending, that is, waits in the queue.                *)
C38_InflightIsPending ==
    pc = "idle" =>
        /\ _refresh_inflight <=> TokenKey \in _pending_keys
        /\ _refresh_inflight <=>
              \E i \in 1..Len(_queue) : _queue[i].key = TokenKey

\* a token request waits with the flag up, after an earlier one failed and a
\* call made from its callback was refused by the queue
C38_Witness ==
    /\ pc = "idle" /\ _refresh_inflight
    /\ TokenKey \in _pending_keys
    /\ completed # {}
    /\ \E c \in 1..Len(sp_calls) : sp_calls[c].did = "post_rejected"

-----------------------------------------------------------------------------
(* C39 (specification Spec): the I/O indicator is active exactly while     *)
(* tick() is executing a request; after every return from tick(), also     *)
(* when an exception leaves it, the indicator is inactive.                 *)
C39_IndicatorOnlyInTick ==
    /\ _active <=> pc # "idle"
    /\ obs.done => ~_active

\* tick() has raised out of on_error and the indicator is off
C39_Witness ==
    /\ pc = "idle" /\ obs.done /\ obs.raised # NoExc
    /\ obs.err = 1
    /\ ~_active

\* ---------------------------------------------------------------------
\* A further claim about the buttons

\* C40: no presses, releases and holds produce a display toggle:
\* display_toggle_requested is never set, consume_display_toggle() returns
\* None in every iteration and the loop's display_enabled stays True
C40_NoDisplayToggle ==
    /\ ~display_toggle_requested
    /\ display_toggle = << >>
    /\ main_display_enabled
    /\ main_display_enabled = display_enabled

\* a click of button 2 took effect and the loop consumed what it asked for
\* in an iteration whose consume_display_toggle() returned None
C40_Witness ==
    /\ ~_suppress_actions
    /\ delivered = << << 2, "click" >> >>
    /\ ~next_widget_requested
    /\ display_toggle = << >>
    /\ main_display_enabled
=============================================================================
